---- MODULE Spec2Model ----
(***************************************************************************)
(* Model of the PactAggregator durable object (pact-aggregator.ts): the    *)
(* minute-bucketed event store, the consolidation pass and the extraction  *)
(* of the events to publish.  Time is the mocked clock of time-utils.ts,   *)
(* counted in scaled-down milliseconds.                                    *)
(***************************************************************************)
EXTENDS Integers, Sequences, FiniteSets, Bags, TLC

\* ---- configuration read from env, scaled down from 60000 / 10000 / 300000 ms,
\* keeping QUIET_PERIOD_MS <= MINUTE_BUCKET_MS <= MAX_TIME_BEFORE_FLUSHING ----
MINUTE_BUCKET_MS == 2
QUIET_PERIOD_MS == 2
MAX_TIME_BEFORE_FLUSHING == 4

\* ---- bounds of the exploration ----
MaxEvents == 3
MaxTime == 8
\* tighter bounds of the exploration with storage failures
FaultMaxEvents == 2
FaultMaxTime == 4
\* tighter bounds of the exploration of calls executed one storage operation at a time
ConcMaxEvents == 2
ConcMaxTime == 3
\* tighter bounds of the explorations with clearAll, getDebugInfo and the
\* threads, and with webhook payloads
OpsMaxEvents == 2
OpsMaxTime == 3

PROVIDER_VERIFICATION_PUBLISHED == "provider_verification_published"
CONTRACT_REQUIRING_VERIFICATION_PUBLISHED == "contract_requiring_verification_published"

\* Normalised events handed to addEvent (PactEventData): two kinds, two
\* pacticipants, two version numbers; one version is shared across kinds.
EventData ==
  { [eventType |-> PROVIDER_VERIFICATION_PUBLISHED, pacticipant |-> "ProviderA",
     pacticipantVersionNumber |-> "v1"],
    [eventType |-> CONTRACT_REQUIRING_VERIFICATION_PUBLISHED, pacticipant |-> "ConsumerB",
     pacticipantVersionNumber |-> "v1"],
    [eventType |-> PROVIDER_VERIFICATION_PUBLISHED, pacticipant |-> "ProviderA",
     pacticipantVersionNumber |-> "v2"] }

\* an absent optional value
UNDEFINED == "undefined"

\* Webhook payloads handed to the thread operations.  A URL is the list of its
\* path segments; <<>> stands for the URL field the payload kind does not have.  The publication and the verification of pact version pv1
\* share a thread key; the publication of pv2 has another.
Payloads ==
  { [eventType |-> CONTRACT_REQUIRING_VERIFICATION_PUBLISHED, providerName |-> "ProviderA",
     consumerName |-> "ConsumerB", consumerVersionBranch |-> "main",
     pactUrl |-> <<"pacts", "pact-version", "pv1">>, verificationResultUrl |-> <<>>],
    [eventType |-> PROVIDER_VERIFICATION_PUBLISHED, providerName |-> "ProviderA",
     consumerName |-> "ConsumerB", consumerVersionBranch |-> "main",
     pactUrl |-> <<>>,
     verificationResultUrl |-> <<"pacts", "pact-version", "pv1", "verification-results", "7">>],
    [eventType |-> CONTRACT_REQUIRING_VERIFICATION_PUBLISHED, providerName |-> "ProviderA",
     consumerName |-> "ConsumerB", consumerVersionBranch |-> "main",
     pactUrl |-> <<"pacts", "pact-version", "pv2">>, verificationResultUrl |-> <<>>] }
Channels == {"#pact-ProviderA"}
ThreadTss == {"1700000000.000100", "1700000000.000200"}
ChannelIds == {"C0123"}
SummaryTexts == {"summary-1"}

\* Bodies of webhook requests (request.json(), cast to PactWebhookPayload): a
\* verification, a publication, and a publication whose JSON also carries
\* properties named pacticipant and pacticipantVersionNumber.
WebhookPayloads ==
  { [eventType |-> PROVIDER_VERIFICATION_PUBLISHED, providerName |-> "ProviderA",
     consumerName |-> "ConsumerB", consumerVersionBranch |-> "main",
     providerVersionBranch |-> "main", consumerVersionNumber |-> "c1",
     providerVersionNumber |-> "p1", githubVerificationStatus |-> "success",
     verificationResultUrl |-> <<"pacts", "pact-version", "pv1", "verification-results", "7">>],
    [eventType |-> CONTRACT_REQUIRING_VERIFICATION_PUBLISHED, providerName |-> "ProviderA",
     consumerName |-> "ConsumerB", consumerVersionBranch |-> "main",
     providerVersionBranch |-> "main", consumerVersionNumber |-> "c1",
     providerVersionNumber |-> "p1", pactUrl |-> <<"pacts", "pact-version", "pv1">>],
    [eventType |-> CONTRACT_REQUIRING_VERIFICATION_PUBLISHED, providerName |-> "ProviderA",
     consumerName |-> "ConsumerB", consumerVersionBranch |-> "main",
     providerVersionBranch |-> "main", consumerVersionNumber |-> "c1",
     providerVersionNumber |-> "p1", pactUrl |-> <<"pacts", "pact-version", "pv1">>,
     pacticipant |-> "ProviderA", pacticipantVersionNumber |-> "p1"] }

\* callers that invoke methods of the one instance concurrently
Callers == {"c1", "c2"}
Idle == [op |-> "idle"]

\* webhook requests the worker handles, possibly at the same time
Handlers == 1..3
NoRequest == [pc |-> "idle"]

\* the scheduled handler has not run
NoTick == <<>>
\* a value that is a number or absent (null, never) is kept as a sequence of at
\* most one number
NULL == <<>>
NEVER == <<>>
Number(n) == <<n>>

VARIABLES
  clock,               \* value returned by now()
  events,              \* storage key 'events': insertion-ordered map, a sequence of [key, list]
  lastEventTime,       \* storage key 'lastEventTime'
  lastProcessTime,     \* storage key 'lastProcessTime'
  totalProcessed,      \* storage key 'totalProcessed'
  lastProcessedCount,  \* storage key 'lastProcessedCount'
  added,               \* history: bag of every event stored by addEvent
  returned,            \* history: bag of every event returned by getEventsToPublish
  lastOp,              \* history: the last operation, "init" | "tick" | "add" | "get"
  lastResult,          \* history: the list returned by the last getEventsToPublish
  pre,                 \* history: the 'events' map as it was before the last operation
  getStreak,           \* history: number of getEventsToPublish calls in a row (capped at 2)
  publicationThreads,  \* storage key 'publicationThreads': thread key -> PublicationThreadInfo
  preThreads,          \* history: the thread map as it was before the last thread operation
  lastArgs,            \* history: the arguments of the last thread operation, or the
                       \* storage operation that failed in the last failed call
  calls,               \* per caller, the call in progress (its position and locals) or Idle
  callTimes,           \* history: the now() of the last completed addEvent (.add) and
                       \* getEventsToPublish (.get) since construction or clearAll, or NEVER
  handlers,            \* per webhook request of the worker, the position of its handler
                       \* and the handler's locals
  scheduler            \* the worker's environment: the minute of the week (UTC) at which
                       \* now() = 0 (.epoch), env.TIMEZONE, and the last run of the
                       \* scheduled handler (.tick, history)

vars == <<clock, events, lastEventTime, lastProcessTime, totalProcessed, lastProcessedCount,
          added, returned, lastOp, lastResult, pre, getStreak,
          publicationThreads, preThreads, lastArgs, calls, callTimes, handlers,
          scheduler>>

\* the durable state of the instance: everything ctx.storage holds
durable == <<events, lastEventTime, lastProcessTime, totalProcessed, lastProcessedCount,
             publicationThreads>>

\* ---- time-utils.ts ----
\* variant: rounds the bucket number up instead of down
getMinuteBucket_ceil(timestamp, bucketDuration) ==
  (timestamp + bucketDuration - 1) \div bucketDuration
getMinuteBucket(timestamp, bucketDuration) == timestamp \div bucketDuration

\* ---- bucket keys ----
createBucketKey(minute) == <<"events", minute>>
getMinuteFromBucketKey(bucketKey) == bucketKey[2]

\* ---- the insertion-ordered Map<string, StoredPactEventData[]> ----
MapIndex(m, k) ==
  IF \E i \in 1..Len(m) : m[i].key = k
    THEN CHOOSE i \in 1..Len(m) : m[i].key = k
    ELSE 0
MapHas(m, k) == MapIndex(m, k) # 0
MapGet(m, k) == IF MapHas(m, k) THEN m[MapIndex(m, k)].list ELSE <<>>
MapSet(m, k, v) ==
  IF MapHas(m, k)
    THEN [m EXCEPT ![MapIndex(m, k)] = [key |-> k, list |-> v]]
    ELSE Append(m, [key |-> k, list |-> v])
MapDelete(m, k) == SelectSeq(m, LAMBDA en : en.key # k)

\* ---- Array.prototype.findIndex / splice(index, 1) ----
\* variant: the event is looked up by its ts alone
findIndex_tsOnly(list, ts, v) ==
  IF \E i \in 1..Len(list) : list[i].ts = ts
    THEN (CHOOSE i \in 1..Len(list) :
            /\ list[i].ts = ts
            /\ \A j \in 1..(i-1) : list[j].ts # ts) - 1
    ELSE -1

\* findIndex gives the 0-based index of the first match, or -1
findIndex(list, ts, v) ==
  IF \E i \in 1..Len(list) : list[i].ts = ts /\ list[i].pacticipantVersionNumber = v
    THEN (CHOOSE i \in 1..Len(list) :
            /\ list[i].ts = ts /\ list[i].pacticipantVersionNumber = v
            /\ \A j \in 1..(i-1) : ~(list[j].ts = ts /\ list[j].pacticipantVersionNumber = v)) - 1
    ELSE -1
\* splice(index, 1): a negative index counts from the end of the array
splice1(list, index) ==
  LET start == IF index < 0 THEN (IF Len(list) + index < 0 THEN 0 ELSE Len(list) + index)
               ELSE index
  IN IF start >= Len(list) THEN list
     ELSE [i \in 1..(Len(list) - 1) |-> IF i <= start THEN list[i] ELSE list[i + 1]]

\* ---- getRecentVersionNumbers ----
RangeOf(list) == { list[i] : i \in 1..Len(list) }

\* variant: only the current bucket is looked at (no quiet period)
getRecentVersionNumbers_currentOnly(evs, currentMinute, currentTime) ==
  { e.pacticipantVersionNumber :
      e \in RangeOf(MapGet(evs, createBucketKey(currentMinute))) }

\* variant: every event of the previous bucket counts, whatever its ts
getRecentVersionNumbers_wholePrevious(evs, currentMinute, currentTime) ==
  { e.pacticipantVersionNumber :
      e \in RangeOf(MapGet(evs, createBucketKey(currentMinute)))
             \cup RangeOf(MapGet(evs, createBucketKey(currentMinute - 1))) }

\* variant: an event exactly QUIET_PERIOD_MS old still counts
getRecentVersionNumbers_atQuiet(evs, currentMinute, currentTime) ==
  { e.pacticipantVersionNumber :
      e \in RangeOf(MapGet(evs, createBucketKey(currentMinute))) }
  \cup
  { e.pacticipantVersionNumber :
      e \in { x \in RangeOf(MapGet(evs, createBucketKey(currentMinute - 1))) :
                x.ts >= currentTime - QUIET_PERIOD_MS } }

getRecentVersionNumbers(evs, currentMinute, currentTime) ==
  LET currentBucketKey == createBucketKey(currentMinute)
      previousBucketKey == createBucketKey(currentMinute - 1)
  IN { e.pacticipantVersionNumber : e \in RangeOf(MapGet(evs, currentBucketKey)) }
     \cup
     { e.pacticipantVersionNumber :
         e \in { x \in RangeOf(MapGet(evs, previousBucketKey)) :
                   x.ts > currentTime - QUIET_PERIOD_MS } }

\* ---- consolidateEvents: the events marked to move ----
\* variant: no flush ceiling, a version match alone moves the event
ShouldMove_noCeiling(event, recentVersionNumbers, currentTime) ==
  event.pacticipantVersionNumber \in recentVersionNumbers

\* variant: an event exactly at the flush ceiling is still moved
ShouldMove_atCeiling(event, recentVersionNumbers, currentTime) ==
  /\ event.pacticipantVersionNumber \in recentVersionNumbers
  /\ event.ts >= currentTime - MAX_TIME_BEFORE_FLUSHING
ShouldMove(event, recentVersionNumbers, currentTime) ==
  /\ event.pacticipantVersionNumber \in recentVersionNumbers
  /\ event.ts > currentTime - MAX_TIME_BEFORE_FLUSHING

\* variant: only the first matching event of a bucket is marked
MarkList_firstOnly(list, bucketKey, recent, currentTime) ==
  LET hit == SelectSeq(list, LAMBDA e : ShouldMove(e, recent, currentTime))
  IN IF hit = <<>> THEN <<>>
     ELSE << [eventToMove |-> hit[1], fromBucket |-> bucketKey] >>

RECURSIVE MarkList(_, _, _, _)
MarkList(list, bucketKey, recent, currentTime) ==
  IF list = <<>> THEN <<>>
  ELSE (IF ShouldMove(Head(list), recent, currentTime)
          THEN << [eventToMove |-> Head(list), fromBucket |-> bucketKey] >>
          ELSE <<>>)
       \o MarkList(Tail(list), bucketKey, recent, currentTime)

RECURSIVE CollectEventsToMove(_, _, _, _)
CollectEventsToMove(m, currentBucketKey, recent, currentTime) ==
  IF m = <<>> THEN <<>>
  ELSE (IF Head(m).key # currentBucketKey
          THEN MarkList(Head(m).list, Head(m).key, recent, currentTime)
          ELSE <<>>)
       \o CollectEventsToMove(Tail(m), currentBucketKey, recent, currentTime)

\* ---- moveEvents ----
\* variant: the moved event is appended to the current bucket but not spliced out
MoveOne_keepOrigin(allEvents, mv, currentBucketKey) ==
  MapSet(allEvents, currentBucketKey,
         Append(MapGet(allEvents, currentBucketKey), mv.eventToMove))

\* variant: the moved event is stamped with the start of the minute it moves to
MoveOne_restamp(allEvents, mv, currentBucketKey) ==
  LET fromEventList == MapGet(allEvents, mv.fromBucket)
      eventIndexToMove == findIndex(fromEventList, mv.eventToMove.ts,
                                    mv.eventToMove.pacticipantVersionNumber)
      removed == MapSet(allEvents, mv.fromBucket, splice1(fromEventList, eventIndexToMove))
  IN MapSet(removed, currentBucketKey,
            Append(MapGet(removed, currentBucketKey),
                   [mv.eventToMove EXCEPT
                      !.ts = getMinuteFromBucketKey(currentBucketKey) * MINUTE_BUCKET_MS]))

MoveOne(allEvents, mv, currentBucketKey) ==
  LET fromEventList == MapGet(allEvents, mv.fromBucket)
      eventIndexToMove == findIndex(fromEventList, mv.eventToMove.ts,
                                    mv.eventToMove.pacticipantVersionNumber)
      removed == MapSet(allEvents, mv.fromBucket, splice1(fromEventList, eventIndexToMove))
  IN MapSet(removed, currentBucketKey,
            Append(MapGet(removed, currentBucketKey), mv.eventToMove))

RECURSIVE moveEvents(_, _, _)
moveEvents(eventsToMove, currentBucketKey, allEvents) ==
  IF eventsToMove = <<>> THEN allEvents
  ELSE moveEvents(Tail(eventsToMove), currentBucketKey,
                  MoveOne(allEvents, Head(eventsToMove), currentBucketKey))

consolidateEvents(allEvents, currentTime) ==
  LET currentMinute == getMinuteBucket(currentTime, MINUTE_BUCKET_MS)
      currentBucketKey == createBucketKey(currentMinute)
      recentVersionNumbers == getRecentVersionNumbers(allEvents, currentMinute, currentTime)
      eventsToMove == CollectEventsToMove(allEvents, currentBucketKey,
                                          recentVersionNumbers, currentTime)
  IN moveEvents(eventsToMove, currentBucketKey, allEvents)

\* ---- getEventsToPublish: the drain of the non-current buckets ----
\* variant: the current-minute bucket is drained like the others
IsProcessed_all(bucketKey, currentMinute) == TRUE

IsProcessed(bucketKey, currentMinute) == getMinuteFromBucketKey(bucketKey) # currentMinute

\* variant: the buckets are visited from the last to the first
RECURSIVE EventsToSend_lastBucketFirst(_, _)
EventsToSend_lastBucketFirst(m, currentMinute) ==
  IF m = <<>> THEN <<>>
  ELSE EventsToSend_lastBucketFirst(Tail(m), currentMinute)
       \o (IF IsProcessed(Head(m).key, currentMinute) THEN Head(m).list ELSE <<>>)

RECURSIVE EventsToSend(_, _)
EventsToSend(m, currentMinute) ==
  IF m = <<>> THEN <<>>
  ELSE (IF IsProcessed(Head(m).key, currentMinute) THEN Head(m).list ELSE <<>>)
       \o EventsToSend(Tail(m), currentMinute)

BucketsToDelete(m, currentMinute) ==
  SelectSeq([i \in 1..Len(m) |-> m[i].key], LAMBDA k : IsProcessed(k, currentMinute))

\* variant: a processed bucket that consolidation has emptied is left in the map
RemoveProcessed_nonEmpty(m, currentMinute) ==
  SelectSeq(m, LAMBDA en : ~IsProcessed(en.key, currentMinute) \/ en.list = <<>>)

\* variant: the processed buckets are returned but never deleted
RemoveProcessed_keep(m, currentMinute) == m

\* variant: only the first processed bucket is deleted
RemoveProcessed_first(m, currentMinute) ==
  IF \E i \in 1..Len(m) : IsProcessed(m[i].key, currentMinute)
    THEN LET f == CHOOSE i \in 1..Len(m) :
                    /\ IsProcessed(m[i].key, currentMinute)
                    /\ \A j \in 1..(i-1) : ~IsProcessed(m[j].key, currentMinute)
         IN [i \in 1..(Len(m) - 1) |-> IF i < f THEN m[i] ELSE m[i + 1]]
    ELSE m

RemoveProcessed(m, currentMinute) ==
  SelectSeq(m, LAMBDA en : ~IsProcessed(en.key, currentMinute))

\* ---- history helpers ----
RECURSIVE SeqToBag(_)
SeqToBag(s) == IF s = <<>> THEN EmptyBag ELSE SetToBag({Head(s)}) (+) SeqToBag(Tail(s))

RECURSIVE AllStored(_)
AllStored(m) == IF m = <<>> THEN <<>> ELSE Head(m).list \o AllStored(Tail(m))

StoredBag(m) == SeqToBag(AllStored(m))

Constructed ==
  /\ clock = 0
  /\ events = <<>>
  /\ lastEventTime = 0
  /\ lastProcessTime = 0
  /\ totalProcessed = 0
  /\ lastProcessedCount = 0
  /\ added = EmptyBag
  /\ returned = EmptyBag
  /\ lastOp = "init"
  /\ lastResult = <<>>
  /\ pre = <<>>
  /\ getStreak = 0
  /\ publicationThreads = <<>>
  /\ preThreads = <<>>
  /\ lastArgs = <<>>
  /\ calls = [c \in Callers |-> Idle]
  /\ callTimes = [add |-> NEVER, get |-> NEVER]
  /\ handlers = [h \in Handlers |-> NoRequest]

Init ==
  /\ Constructed
  /\ scheduler = [epoch |-> 0, TIMEZONE |-> UNDEFINED, tick |-> NoTick]

\* The clock advances between calls.
Tick ==
  /\ clock < MaxTime
  /\ clock' = clock + 1
  /\ lastOp' = "tick"
  /\ lastResult' = <<>>
  /\ pre' = <<>>
  /\ getStreak' = 0
  /\ UNCHANGED calls
  /\ UNCHANGED callTimes
  /\ preThreads' = <<>>
  /\ lastArgs' = <<>>
  /\ UNCHANGED <<events, lastEventTime, lastProcessTime, totalProcessed, lastProcessedCount,
                 added, returned, publicationThreads>>

\* ---- object spread { ...a, ...b }: the properties of both, those of b win ----
ObjectSpread(a, b) ==
  [k \in DOMAIN a \cup DOMAIN b |-> IF k \in DOMAIN b THEN b[k] ELSE a[k]]

\* variant: the call also resets lastProcessedCount
addEvent_resetCount(eventData) ==
  LET currentTime == clock
      currentMinute == getMinuteBucket(currentTime, MINUTE_BUCKET_MS)
      currentBucketKey == createBucketKey(currentMinute)
      allEvents == IF MapHas(events, currentBucketKey) THEN events
                   ELSE MapSet(events, currentBucketKey, <<>>)
      stored == ObjectSpread(eventData, [ts |-> currentTime])
  IN /\ BagCardinality(added) < MaxEvents
     /\ events' = MapSet(allEvents, currentBucketKey,
                         Append(MapGet(allEvents, currentBucketKey), stored))
     /\ lastEventTime' = currentTime
     /\ lastProcessedCount' = 0
     /\ added' = added (+) SetToBag({stored})
     /\ lastOp' = "add"
     /\ lastResult' = <<>>
     /\ pre' = events
     /\ getStreak' = 0
     /\ UNCHANGED calls
     /\ callTimes' = [callTimes EXCEPT !.add = Number(currentTime)]
     /\ UNCHANGED <<clock, lastProcessTime, totalProcessed, returned,
                    publicationThreads, preThreads, lastArgs>>

addEvent(eventData) ==
  LET currentTime == clock
      currentMinute == getMinuteBucket(currentTime, MINUTE_BUCKET_MS)
      currentBucketKey == createBucketKey(currentMinute)
      allEvents == IF MapHas(events, currentBucketKey) THEN events
                   ELSE MapSet(events, currentBucketKey, <<>>)
      stored == ObjectSpread(eventData, [ts |-> currentTime])
  IN /\ BagCardinality(added) < MaxEvents
     /\ events' = MapSet(allEvents, currentBucketKey,
                         Append(MapGet(allEvents, currentBucketKey), stored))
     /\ lastEventTime' = currentTime
     /\ added' = added (+) SetToBag({stored})
     /\ lastOp' = "add"
     /\ lastResult' = <<>>
     /\ pre' = events
     /\ getStreak' = 0
     /\ UNCHANGED calls
     /\ callTimes' = [callTimes EXCEPT !.add = Number(currentTime)]
     /\ UNCHANGED <<clock, lastProcessTime, totalProcessed, lastProcessedCount, returned,
                    publicationThreads, preThreads, lastArgs>>

\* ---- payload-utils.ts: the normalised event of a webhook payload ----
getPacticipant(payload) ==
  CASE payload.eventType = PROVIDER_VERIFICATION_PUBLISHED -> payload.providerName
    [] payload.eventType = CONTRACT_REQUIRING_VERIFICATION_PUBLISHED -> payload.consumerName
getPacticipantVersionNumber(payload) ==
  CASE payload.eventType = PROVIDER_VERIFICATION_PUBLISHED -> payload.providerVersionNumber
    [] payload.eventType = CONTRACT_REQUIRING_VERIFICATION_PUBLISHED -> payload.consumerVersionNumber
\* { pacticipant, pacticipantVersionNumber, ...rawPayload }
getEventDataFromPayload(rawPayload) ==
  ObjectSpread([pacticipant |-> getPacticipant(rawPayload),
                pacticipantVersionNumber |-> getPacticipantVersionNumber(rawPayload)],
               rawPayload)

\* the webhook request: the payload is normalised and handed to addEvent
fetchWebhook(rawPayload) == addEvent(getEventDataFromPayload(rawPayload))

\* ---- index.ts / slack.ts: posting the events of one extraction ----
\* the template string `${e.pacticipant}:${e.pacticipantVersionNumber}`, as the
\* sequence of its pieces
GroupKey_pacticipantOnly(e) == <<e.pacticipant>>
GroupKey(e) == <<e.pacticipant, ":", e.pacticipantVersionNumber>>

\* one step of events.reduce: acc[key] = acc[key] || []; acc[key].push(e)
GroupStep(acc, e) ==
  LET key == GroupKey(e) IN
  IF \E i \in 1..Len(acc) : acc[i].key = key
    THEN [i \in 1..Len(acc) |->
            IF acc[i].key = key THEN [acc[i] EXCEPT !.events = Append(@, e)] ELSE acc[i]]
    ELSE Append(acc, [key |-> key, events |-> <<e>>])

\* Object.entries(grouped): the groups in the order their keys were first set
RECURSIVE GroupEvents(_, _)
GroupEvents(acc, evs) ==
  IF evs = <<>> THEN acc ELSE GroupEvents(GroupStep(acc, Head(evs)), Tail(evs))

\* key.split(":") and the destructuring of its first two elements
KeySplit(key) ==
  LET parts == SelectSeq(key, LAMBDA piece : piece # ":") IN
  <<IF Len(parts) >= 1 THEN parts[1] ELSE UNDEFINED,
    IF Len(parts) >= 2 THEN parts[2] ELSE UNDEFINED>>

\* what the two texts of a group are made from
createSummaryAndDetailsMessages(pacticipant, pacticipantVersionNumber, pacticipantEvents) ==
  LET verifications == SelectSeq(pacticipantEvents,
                         LAMBDA e : e.eventType = PROVIDER_VERIFICATION_PUBLISHED)
      publications  == SelectSeq(pacticipantEvents,
                         LAMBDA e : e.eventType = CONTRACT_REQUIRING_VERIFICATION_PUBLISHED)
  IN [summaryText |-> <<pacticipant, pacticipantVersionNumber,
                        Len(publications), Len(verifications)>>,
      detailsList |-> publications \o verifications]

\* the ts chat.postMessage answers for the n-th message of the run
SlackTs(n) == <<"slack-ts", n>>

\* slackPost: the request body; thread_ts is set only when one is passed
slackPost(text, threadTs) == [text |-> text, thread_ts |-> threadTs]

\* postPacticipantEventsToSlack, as the n-th and (n+1)-th message of the run
postPacticipantEventsToSlack(summaryText, detailsList, n) ==
  << slackPost(summaryText, UNDEFINED), slackPost(detailsList, SlackTs(n)) >>

RECURSIVE PostGroups(_, _)
PostGroups(groups, n) ==
  IF groups = <<>> THEN <<>>
  ELSE LET key  == Head(groups).key
           msgs == createSummaryAndDetailsMessages(KeySplit(key)[1], KeySplit(key)[2],
                                                   Head(groups).events)
       IN postPacticipantEventsToSlack(msgs.summaryText, msgs.detailsList, n)
            \o PostGroups(Tail(groups), n + 2)

\* the chat.postMessage requests of one run, in order
postMessagesForEventsToSlack(evs) == PostGroups(GroupEvents(<<>>, evs), 1)

\* ---- updateProcessingStats: the new totalProcessed and lastProcessedCount ----
\* variant: the total is overwritten by the count instead of increased by it
updateProcessingStats_overwrite(currentTotal, processedCount) ==
  [totalProcessed |-> processedCount, lastProcessedCount |-> processedCount]
updateProcessingStats(currentTotal, processedCount) ==
  [totalProcessed |-> currentTotal + processedCount, lastProcessedCount |-> processedCount]

\* variant: lastProcessTime is written only when a bucket was deleted
getEventsToPublish_stampOnDelete ==
  LET currentTime == clock
      currentMinute == getMinuteBucket(currentTime, MINUTE_BUCKET_MS)
      allEvents == consolidateEvents(events, currentTime)
      eventsToSend == EventsToSend(allEvents, currentMinute)
      bucketsToDelete == BucketsToDelete(allEvents, currentMinute)
  IN /\ events' = RemoveProcessed(allEvents, currentMinute)
     /\ IF Len(bucketsToDelete) > 0
          THEN LET stats == updateProcessingStats(totalProcessed, Len(eventsToSend))
               IN /\ lastProcessTime' = currentTime
                  /\ totalProcessed' = stats.totalProcessed
                  /\ lastProcessedCount' = stats.lastProcessedCount
          ELSE UNCHANGED <<lastProcessTime, totalProcessed, lastProcessedCount>>
     /\ returned' = returned (+) SeqToBag(eventsToSend)
     /\ lastOp' = "get"
     /\ lastResult' = eventsToSend
     /\ pre' = events
     /\ getStreak' = IF getStreak < 2 THEN getStreak + 1 ELSE 2
     /\ UNCHANGED calls
     /\ callTimes' = [callTimes EXCEPT !.get = Number(currentTime)]
     /\ UNCHANGED <<clock, lastEventTime, added, publicationThreads, preThreads, lastArgs>>

getEventsToPublish ==
  LET currentTime == clock
      currentMinute == getMinuteBucket(currentTime, MINUTE_BUCKET_MS)
      allEvents == consolidateEvents(events, currentTime)
      eventsToSend == EventsToSend(allEvents, currentMinute)
      bucketsToDelete == BucketsToDelete(allEvents, currentMinute)
  IN /\ events' = RemoveProcessed(allEvents, currentMinute)
     /\ lastProcessTime' = currentTime
     /\ IF Len(bucketsToDelete) > 0
          THEN LET stats == updateProcessingStats(totalProcessed, Len(eventsToSend))
               IN /\ totalProcessed' = stats.totalProcessed
                  /\ lastProcessedCount' = stats.lastProcessedCount
          ELSE UNCHANGED <<totalProcessed, lastProcessedCount>>
     /\ returned' = returned (+) SeqToBag(eventsToSend)
     /\ lastOp' = "get"
     /\ lastResult' = eventsToSend
     /\ pre' = events
     /\ getStreak' = IF getStreak < 2 THEN getStreak + 1 ELSE 2
     /\ UNCHANGED calls
     /\ callTimes' = [callTimes EXCEPT !.get = Number(currentTime)]
     /\ UNCHANGED <<clock, lastEventTime, added, publicationThreads, preThreads, lastArgs>>

\* ---- publication threads ----
\* variant: the pact version is always read from pactUrl
getPactVersionFromPayload_pactUrlOnly(pub) ==
  LET hits == { i \in 1..(Len(pub.pactUrl) - 1) : pub.pactUrl[i] = "pact-version" }
  IN IF hits # {}
       THEN pub.pactUrl[(CHOOSE i \in hits : \A j \in hits : i <= j) + 1]
       ELSE UNDEFINED
\* payload-utils.ts: the segment after the first /pact-version/ of the source URL
getPactVersionFromPayload(pub) ==
  LET sourceUrl == IF pub.eventType = PROVIDER_VERIFICATION_PUBLISHED
                     THEN pub.verificationResultUrl ELSE pub.pactUrl
      hits == { i \in 1..(Len(sourceUrl) - 1) : sourceUrl[i] = "pact-version" }
  IN IF hits # {}
       THEN sourceUrl[(CHOOSE i \in hits : \A j \in hits : i <= j) + 1]
       ELSE UNDEFINED

\* the key provider|consumer|branch|pactVersion|channel, kept as a tuple
makeKeyForPublicationThread(pub, channel) ==
  <<pub.providerName, pub.consumerName, pub.consumerVersionBranch,
    getPactVersionFromPayload(pub), channel>>

ThreadsHas(threads, key) == key \in DOMAIN threads
ThreadsPut(threads, key, info) ==
  [k \in DOMAIN threads \cup {key} |-> IF k = key THEN info ELSE threads[k]]

\* variant: nothing of the existing entry is kept
NewThreadInfo_fullReplace(threads, key, pub, threadTs, channelId) ==
  [ts |-> threadTs, channelId |-> channelId, payload |-> pub, summary |-> UNDEFINED]
\* the entry setPublicationThreadTs stores at key
NewThreadInfo(threads, key, pub, threadTs, channelId) ==
  [ts |-> threadTs,
   channelId |-> IF channelId # UNDEFINED THEN channelId
                 ELSE IF ThreadsHas(threads, key) THEN threads[key].channelId
                 ELSE UNDEFINED,
   payload |-> pub,
   summary |-> IF ThreadsHas(threads, key) THEN threads[key].summary ELSE UNDEFINED]

\* variant: the delete inside the loop is active
RemoveOtherEntries_delete(threads, key, pub) ==
  [k \in { e \in DOMAIN threads :
             \/ e = key
             \/ ~(/\ e[1] = pub.providerName
                  /\ e[2] = pub.consumerName
                  /\ e[3] = pub.consumerVersionBranch) } |-> threads[k]]
\* the loop over the other keys of the same provider|consumer|branch: its
\* delete is commented out, so it removes nothing
RemoveOtherEntries(threads, key, pub) == threads

\* variant: recording a thread counts as an event and stamps lastEventTime
setPublicationThreadTs_stampEvent(pub, channel, threadTs, channelId) ==
  LET key == makeKeyForPublicationThread(pub, channel)
      threads == RemoveOtherEntries(publicationThreads, key, pub)
  IN /\ publicationThreads' =
          ThreadsPut(threads, key, NewThreadInfo(threads, key, pub, threadTs, channelId))
     /\ lastEventTime' = clock
     /\ preThreads' = publicationThreads
     /\ lastArgs' = <<pub, channel, threadTs, channelId>>
     /\ lastOp' = "setPublicationThreadTs"
     /\ lastResult' = <<>>
     /\ pre' = events
     /\ getStreak' = 0
     /\ UNCHANGED calls
     /\ UNCHANGED callTimes
     /\ UNCHANGED <<clock, events, lastProcessTime, totalProcessed,
                    lastProcessedCount, added, returned>>

setPublicationThreadTs(pub, channel, threadTs, channelId) ==
  LET key == makeKeyForPublicationThread(pub, channel)
      threads == RemoveOtherEntries(publicationThreads, key, pub)
  IN /\ publicationThreads' =
          ThreadsPut(threads, key, NewThreadInfo(threads, key, pub, threadTs, channelId))
     /\ preThreads' = publicationThreads
     /\ lastArgs' = <<pub, channel, threadTs, channelId>>
     /\ lastOp' = "setPublicationThreadTs"
     /\ lastResult' = <<>>
     /\ pre' = events
     /\ getStreak' = 0
     /\ UNCHANGED calls
     /\ UNCHANGED callTimes
     /\ UNCHANGED <<clock, events, lastEventTime, lastProcessTime, totalProcessed,
                    lastProcessedCount, added, returned>>

setPublicationSummaryText(pub, channel, summaryText) ==
  LET key == makeKeyForPublicationThread(pub, channel)
      threads == publicationThreads
  IN /\ publicationThreads' =
          IF ThreadsHas(threads, key)
            THEN ThreadsPut(threads, key, [threads[key] EXCEPT !.summary = summaryText])
            ELSE threads
     /\ preThreads' = publicationThreads
     /\ lastArgs' = <<pub, channel, summaryText>>
     /\ lastOp' = "setPublicationSummaryText"
     /\ lastResult' = <<>>
     /\ pre' = events
     /\ getStreak' = 0
     /\ UNCHANGED calls
     /\ UNCHANGED callTimes
     /\ UNCHANGED <<clock, events, lastEventTime, lastProcessTime, totalProcessed,
                    lastProcessedCount, added, returned>>

\* the three lookups: threads[key]?.ts, ?.payload, ?.channelId
ThreadLookup(op, pub, channel, value) ==
  /\ lastOp' = op
  /\ lastResult' = value
  /\ lastArgs' = <<pub, channel>>
  /\ preThreads' = publicationThreads
  /\ pre' = events
  /\ getStreak' = 0
  /\ UNCHANGED calls
  /\ UNCHANGED callTimes
  /\ UNCHANGED <<clock, events, lastEventTime, lastProcessTime, totalProcessed,
                 lastProcessedCount, added, returned, publicationThreads>>

getPublicationThreadTs(ver, channel) ==
  LET key == makeKeyForPublicationThread(ver, channel)
      threads == publicationThreads
  IN ThreadLookup("getPublicationThreadTs", ver, channel,
                  IF ThreadsHas(threads, key) THEN threads[key].ts ELSE UNDEFINED)

getPublicationPayload(pub, channel) ==
  LET key == makeKeyForPublicationThread(pub, channel)
      threads == publicationThreads
  IN ThreadLookup("getPublicationPayload", pub, channel,
                  IF ThreadsHas(threads, key) THEN threads[key].payload ELSE UNDEFINED)

getPublicationChannelId(pub, channel) ==
  LET key == makeKeyForPublicationThread(pub, channel)
      threads == publicationThreads
  IN ThreadLookup("getPublicationChannelId", pub, channel,
                  IF ThreadsHas(threads, key) THEN threads[key].channelId ELSE UNDEFINED)

\* ---- clearAll: ctx.storage.deleteAll(); every key then reads as its default ----
\* variant: only the buckets are deleted
clearAll_eventsOnly ==
  /\ events' = <<>>
  /\ added' = EmptyBag
  /\ returned' = EmptyBag
  /\ lastOp' = "clearAll"
  /\ lastResult' = <<>>
  /\ pre' = events
  /\ preThreads' = publicationThreads
  /\ lastArgs' = <<>>
  /\ getStreak' = 0
  /\ UNCHANGED calls
  /\ callTimes' = [add |-> NEVER, get |-> NEVER]
  /\ UNCHANGED <<clock, lastEventTime, lastProcessTime, totalProcessed, lastProcessedCount,
                 publicationThreads>>

clearAll ==
  /\ events' = <<>>
  /\ lastEventTime' = 0
  /\ lastProcessTime' = 0
  /\ totalProcessed' = 0
  /\ lastProcessedCount' = 0
  /\ publicationThreads' = <<>>
  /\ added' = EmptyBag
  /\ returned' = EmptyBag
  /\ lastOp' = "clearAll"
  /\ lastResult' = <<>>
  /\ pre' = events
  /\ preThreads' = publicationThreads
  /\ lastArgs' = <<>>
  /\ getStreak' = 0
  /\ UNCHANGED calls
  /\ callTimes' = [add |-> NEVER, get |-> NEVER]
  /\ UNCHANGED clock

\* ---- getDebugInfo ----
\* new Date(ms).toISOString() and Date.parse of such a string
toISOString(ms) == <<"ISO-8601", ms>>
DateParse(iso) == iso[2]
\* variant: counts the buckets
TotalEvents_buckets(m) == Len(m)
\* Array.from(events.values()).reduce((sum, eventList) => sum + eventList.length, 0)
RECURSIVE TotalEvents(_)
TotalEvents(m) == IF m = <<>> THEN 0 ELSE Len(Head(m).list) + TotalEvents(Tail(m))
EventBuckets(m) ==
  [i \in 1..Len(m) |-> [key |-> m[i].key, count |-> Len(m[i].list), events |-> m[i].list]]
\* variant: the elapsed times are computed whatever the stored timestamps are
DebugInfo_alwaysElapsed ==
  [currentTime |-> toISOString(clock),
   lastEventTime |-> toISOString(lastEventTime),
   lastProcessTime |-> toISOString(lastProcessTime),
   eventBuckets |-> EventBuckets(events),
   totalEvents |-> TotalEvents(events),
   totalProcessedEvents |-> totalProcessed,
   lastProcessedCount |-> lastProcessedCount,
   timeSinceLastEvent |-> Number(clock - lastEventTime),
   timeSinceLastProcess |-> Number(clock - lastProcessTime),
   publicationThreads |-> publicationThreads]

DebugInfo ==
  [currentTime |-> toISOString(clock),
   lastEventTime |-> toISOString(lastEventTime),
   lastProcessTime |-> toISOString(lastProcessTime),
   eventBuckets |-> EventBuckets(events),
   totalEvents |-> TotalEvents(events),
   totalProcessedEvents |-> totalProcessed,
   lastProcessedCount |-> lastProcessedCount,
   timeSinceLastEvent |-> IF lastEventTime > 0 THEN Number(clock - lastEventTime) ELSE NULL,
   timeSinceLastProcess |->
     IF lastProcessTime > 0 THEN Number(clock - lastProcessTime) ELSE NULL,
   publicationThreads |-> publicationThreads]

\* a read: the history of the last write (pre, preThreads) is left alone
getDebugInfo ==
  /\ lastOp' = "getDebugInfo"
  /\ lastResult' = DebugInfo
  /\ lastArgs' = <<>>
  /\ getStreak' = 0
  /\ UNCHANGED calls
  /\ UNCHANGED callTimes
  /\ UNCHANGED <<clock, events, lastEventTime, lastProcessTime, totalProcessed,
                 lastProcessedCount, added, returned, pre, publicationThreads, preThreads>>

\* ---- storage failures ----
\* The awaited storage operations of addEvent, in program order.  One that
\* rejects throws out of the try block: the writes awaited before it stay,
\* the rest of the body is skipped, the catch logs and the call returns.
AddEventOps == <<"getEvents", "setLastEventTime", "setEvents">>
\* The awaited storage operations of getEventsToPublish, in program order;
\* the last four run only when a bucket is to be deleted.
GetEventsToPublishOps ==
  <<"consolidateEvents.getEvents", "consolidateEvents.setEvents", "getEvents",
    "setLastProcessTime", "setEvents", "updateProcessingStats.get",
    "updateProcessingStats.putTotalProcessed", "updateProcessingStats.putLastProcessedCount">>
OpIndex(ops, name) == CHOOSE i \in 1..Len(ops) : ops[i] = name

\* addEvent when the storage operation failAt rejects
addEventFails(eventData, failAt) ==
  LET currentTime == clock
      reached == OpIndex(AddEventOps, failAt)
  IN /\ lastEventTime' = IF reached > 2 THEN currentTime ELSE lastEventTime
     /\ lastOp' = "addFail"
     /\ lastResult' = <<>>
     /\ pre' = events
     /\ getStreak' = 0
     /\ UNCHANGED calls
     /\ UNCHANGED callTimes
     /\ lastArgs' = <<failAt>>
     /\ UNCHANGED <<clock, events, lastProcessTime, totalProcessed, lastProcessedCount,
                    added, returned, publicationThreads, preThreads>>

\* getEventsToPublish when the storage operation failAt rejects: the catch
\* returns the empty list
getEventsToPublishFails(failAt) ==
  LET currentTime == clock
      currentMinute == getMinuteBucket(currentTime, MINUTE_BUCKET_MS)
      reached == OpIndex(GetEventsToPublishOps, failAt)
      allEvents == consolidateEvents(events, currentTime)
      eventsToSend == EventsToSend(allEvents, currentMinute)
      bucketsToDelete == BucketsToDelete(allEvents, currentMinute)
  IN /\ reached > 4 => Len(bucketsToDelete) > 0
     /\ events' = IF reached > 5 THEN RemoveProcessed(allEvents, currentMinute)
                  ELSE IF reached > 2 THEN allEvents
                  ELSE events
     /\ lastProcessTime' = IF reached > 4 THEN currentTime ELSE lastProcessTime
     /\ totalProcessed' =
          IF reached > 7
            THEN updateProcessingStats(totalProcessed, Len(eventsToSend)).totalProcessed
            ELSE totalProcessed
     /\ lastOp' = "getFail"
     /\ lastResult' = <<>>
     /\ pre' = events
     /\ getStreak' = 0
     /\ UNCHANGED calls
     /\ UNCHANGED callTimes
     /\ lastArgs' = <<failAt>>
     /\ UNCHANGED <<clock, lastEventTime, lastProcessedCount, added, returned,
                    publicationThreads, preThreads>>

Next ==
  \/ Tick /\ UNCHANGED <<handlers, scheduler>>
  \/ \E eventData \in EventData : addEvent(eventData) /\ UNCHANGED <<handlers, scheduler>>
  \/ getEventsToPublish /\ UNCHANGED <<handlers, scheduler>>

Spec == Init /\ [][Next]_vars

\* Scheduling assumed by the liveness claims: the clock keeps advancing (up to
\* MaxTime).  That the scheduled trigger keeps invoking getEventsToPublish is an
\* assumption the liveness claims state themselves, as Triggered.
LiveSpec == Spec /\ WF_vars(Tick /\ UNCHANGED <<handlers, scheduler>>)

\* getEventsToPublish keeps being invoked
Triggered == []<>(lastOp = "get")

\* ---- concurrent callers: a method body executed one awaited storage
\* operation at a time ----
\* The guarantee of the platform that the class comment relies on: a call is
\* delivered to the instance only while no other call of it is executing.
\* variant: calls are delivered at any time
InputGateOpen_always(c) == TRUE
InputGateOpen(c) == \A d \in Callers \ {c} : calls[d] = Idle

\* a caller's request is delivered and the body starts: now() is read first
Invoke(c, op, eventData) ==
  /\ calls[c] = Idle
  /\ InputGateOpen(c)
  /\ op = "addEvent" =>
       BagCardinality(added) + Cardinality({ d \in Callers : calls[d].op = "addEvent" })
         < ConcMaxEvents
  /\ calls' = [calls EXCEPT ![c] =
                [op |-> op, pc |-> 1, eventData |-> eventData, currentTime |-> clock,
                 allEvents |-> <<>>, eventsToSend |-> <<>>, deleted |-> FALSE,
                 currentTotal |-> 0, start |-> durable]]
  /\ UNCHANGED <<clock, events, lastEventTime, lastProcessTime, totalProcessed,
                 lastProcessedCount, added, returned, lastOp, lastResult, pre, getStreak,
                 publicationThreads, preThreads, lastArgs, callTimes>>

\* the history written when the call of caller c returns result
Return(c, op, result, newAdded) ==
  /\ calls' = [calls EXCEPT ![c] = Idle]
  /\ added' = added (+) newAdded
  /\ returned' = returned (+) SeqToBag(result)
  /\ lastOp' = op
  /\ lastResult' = result
  /\ pre' = calls[c].start[1]
  /\ lastArgs' = <<c>>
  /\ getStreak' = 0
  /\ callTimes' = [callTimes EXCEPT ![op] = Number(calls[c].currentTime)]
  /\ UNCHANGED <<clock, publicationThreads, preThreads>>

\* the next awaited storage operation of an addEvent in progress
addEventStep(c) ==
  LET call == calls[c]
      currentTime == call.currentTime
      currentBucketKey == createBucketKey(getMinuteBucket(currentTime, MINUTE_BUCKET_MS))
      allEvents == IF MapHas(events, currentBucketKey) THEN events
                   ELSE MapSet(events, currentBucketKey, <<>>)
      stored == ObjectSpread(call.eventData, [ts |-> currentTime])
  IN /\ call.op = "addEvent"
     /\ \/ /\ call.pc = 1   \* getEvents, then the push into the local map
           /\ calls' = [calls EXCEPT ![c].pc = 2,
                                     ![c].allEvents =
                                       MapSet(allEvents, currentBucketKey,
                                              Append(MapGet(allEvents, currentBucketKey), stored))]
           /\ UNCHANGED <<clock, events, lastEventTime, lastProcessTime, totalProcessed,
                          lastProcessedCount, added, returned, lastOp, lastResult, pre,
                          getStreak, publicationThreads, preThreads, lastArgs, callTimes>>
        \/ /\ call.pc = 2   \* setLastEventTime
           /\ lastEventTime' = currentTime
           /\ calls' = [calls EXCEPT ![c].pc = 3]
           /\ UNCHANGED <<clock, events, lastProcessTime, totalProcessed,
                          lastProcessedCount, added, returned, lastOp, lastResult, pre,
                          getStreak, publicationThreads, preThreads, lastArgs, callTimes>>
        \/ /\ call.pc = 3   \* setEvents, and the call returns
           /\ events' = call.allEvents
           /\ Return(c, "add", <<>>, SetToBag({stored}))
           /\ UNCHANGED <<lastEventTime, lastProcessTime, totalProcessed, lastProcessedCount>>

\* the next awaited storage operation of a getEventsToPublish in progress
getEventsToPublishStep(c) ==
  LET call == calls[c]
      currentTime == call.currentTime
      currentMinute == getMinuteBucket(currentTime, MINUTE_BUCKET_MS)
  IN /\ call.op = "getEventsToPublish"
     /\ \/ /\ call.pc = 1   \* consolidateEvents: getEvents, then moveEvents on the local map
           /\ calls' = [calls EXCEPT ![c].pc = 2,
                                     ![c].allEvents = consolidateEvents(events, currentTime)]
           /\ UNCHANGED <<clock, events, lastEventTime, lastProcessTime, totalProcessed,
                          lastProcessedCount, added, returned, lastOp, lastResult, pre,
                          getStreak, publicationThreads, preThreads, lastArgs, callTimes>>
        \/ /\ call.pc = 2   \* consolidateEvents: setEvents
           /\ events' = call.allEvents
           /\ calls' = [calls EXCEPT ![c].pc = 3]
           /\ UNCHANGED <<clock, lastEventTime, lastProcessTime, totalProcessed,
                          lastProcessedCount, added, returned, lastOp, lastResult, pre,
                          getStreak, publicationThreads, preThreads, lastArgs, callTimes>>
        \/ /\ call.pc = 3   \* getEvents, then collect and delete on the local map
           /\ calls' = [calls EXCEPT ![c].pc = 4,
                                     ![c].allEvents = RemoveProcessed(events, currentMinute),
                                     ![c].eventsToSend = EventsToSend(events, currentMinute),
                                     ![c].deleted =
                                       Len(BucketsToDelete(events, currentMinute)) > 0]
           /\ UNCHANGED <<clock, events, lastEventTime, lastProcessTime, totalProcessed,
                          lastProcessedCount, added, returned, lastOp, lastResult, pre,
                          getStreak, publicationThreads, preThreads, lastArgs, callTimes>>
        \/ /\ call.pc = 4   \* setLastProcessTime; the call returns if nothing was deleted
           /\ lastProcessTime' = currentTime
           /\ IF call.deleted
                THEN /\ calls' = [calls EXCEPT ![c].pc = 5]
                     /\ UNCHANGED <<clock, added, returned, lastOp, lastResult, pre,
                                    getStreak, publicationThreads, preThreads, lastArgs, callTimes>>
                ELSE Return(c, "get", call.eventsToSend, EmptyBag)
           /\ UNCHANGED <<events, lastEventTime, totalProcessed, lastProcessedCount>>
        \/ /\ call.pc = 5   \* setEvents
           /\ events' = call.allEvents
           /\ calls' = [calls EXCEPT ![c].pc = 6]
           /\ UNCHANGED <<clock, lastEventTime, lastProcessTime, totalProcessed,
                          lastProcessedCount, added, returned, lastOp, lastResult, pre,
                          getStreak, publicationThreads, preThreads, lastArgs, callTimes>>
        \/ /\ call.pc = 6   \* updateProcessingStats: get totalProcessed
           /\ calls' = [calls EXCEPT ![c].pc = 7, ![c].currentTotal = totalProcessed]
           /\ UNCHANGED <<clock, events, lastEventTime, lastProcessTime, totalProcessed,
                          lastProcessedCount, added, returned, lastOp, lastResult, pre,
                          getStreak, publicationThreads, preThreads, lastArgs, callTimes>>
        \/ /\ call.pc = 7   \* updateProcessingStats: put totalProcessed
           /\ totalProcessed' =
                updateProcessingStats(call.currentTotal, Len(call.eventsToSend)).totalProcessed
           /\ calls' = [calls EXCEPT ![c].pc = 8]
           /\ UNCHANGED <<clock, events, lastEventTime, lastProcessTime,
                          lastProcessedCount, added, returned, lastOp, lastResult, pre,
                          getStreak, publicationThreads, preThreads, lastArgs, callTimes>>
        \/ /\ call.pc = 8   \* updateProcessingStats: put lastProcessedCount; the call returns
           /\ lastProcessedCount' =
                updateProcessingStats(call.currentTotal,
                                      Len(call.eventsToSend)).lastProcessedCount
           /\ Return(c, "get", call.eventsToSend, EmptyBag)
           /\ UNCHANGED <<events, lastEventTime, lastProcessTime, totalProcessed>>

\* the clock does not wait for a call to finish
ConcTick ==
  /\ clock < ConcMaxTime
  /\ clock' = clock + 1
  /\ UNCHANGED <<events, lastEventTime, lastProcessTime, totalProcessed, lastProcessedCount,
                 added, returned, lastOp, lastResult, pre, getStreak, publicationThreads,
                 preThreads, lastArgs, calls, callTimes>>

ConcNext ==
  \/ ConcTick /\ UNCHANGED <<handlers, scheduler>>
  \/ \E c \in Callers, eventData \in EventData : Invoke(c, "addEvent", eventData)
         /\ UNCHANGED <<handlers, scheduler>>
  \/ \E c \in Callers : Invoke(c, "getEventsToPublish", <<>>) /\ UNCHANGED <<handlers, scheduler>>
  \/ \E c \in Callers : addEventStep(c) /\ UNCHANGED <<handlers, scheduler>>
  \/ \E c \in Callers : getEventsToPublishStep(c) /\ UNCHANGED <<handlers, scheduler>>

ConcSpec == Init /\ [][ConcNext]_vars

\* The same program when storage operations may reject.
FaultNext ==
  \/ clock < FaultMaxTime /\ Tick /\ UNCHANGED <<handlers, scheduler>>
  \/ \E eventData \in EventData : BagCardinality(added) < FaultMaxEvents /\ addEvent(eventData)
         /\ UNCHANGED <<handlers, scheduler>>
  \/ getEventsToPublish /\ UNCHANGED <<handlers, scheduler>>
  \/ \E eventData \in EventData, i \in 1..Len(AddEventOps) :
       addEventFails(eventData, AddEventOps[i]) /\ UNCHANGED <<handlers, scheduler>>
  \/ \E i \in 1..Len(GetEventsToPublishOps) : getEventsToPublishFails(GetEventsToPublishOps[i])
         /\ UNCHANGED <<handlers, scheduler>>

FaultSpec == Init /\ [][FaultNext]_vars

\* The event store fed by webhook requests.
WebhookNext ==
  \/ clock < OpsMaxTime /\ Tick /\ UNCHANGED <<handlers, scheduler>>
  \/ \E rawPayload \in WebhookPayloads :
       BagCardinality(added) < OpsMaxEvents /\ fetchWebhook(rawPayload) /\ UNCHANGED <<handlers, scheduler>>
  \/ getEventsToPublish /\ UNCHANGED <<handlers, scheduler>>

WebhookSpec == Init /\ [][WebhookNext]_vars

\* The publication-thread tracker alone.  Threads are also opened in a second
\* channel, for the publication of pv1.
ThreadChannels == Channels \cup {"#pact-releases"}
ThreadTargets ==
  { tg \in Payloads \X ThreadChannels :
      \/ tg[2] \in Channels
      \/ /\ tg[1].eventType = CONTRACT_REQUIRING_VERIFICATION_PUBLISHED
         /\ getPactVersionFromPayload(tg[1]) = "pv1" }
ThreadNext ==
  \/ \E tg \in ThreadTargets, threadTs \in ThreadTss, channelId \in ChannelIds \cup {UNDEFINED} :
       setPublicationThreadTs(tg[1], tg[2], threadTs, channelId) /\ UNCHANGED <<handlers, scheduler>>
  \/ \E tg \in ThreadTargets, summaryText \in SummaryTexts :
       setPublicationSummaryText(tg[1], tg[2], summaryText) /\ UNCHANGED <<handlers, scheduler>>
  \/ \E pub \in Payloads, channel \in ThreadChannels : getPublicationThreadTs(pub, channel)
         /\ UNCHANGED <<handlers, scheduler>>
  \/ \E pub \in Payloads, channel \in ThreadChannels : getPublicationPayload(pub, channel)
         /\ UNCHANGED <<handlers, scheduler>>
  \/ \E pub \in Payloads, channel \in ThreadChannels : getPublicationChannelId(pub, channel)
         /\ UNCHANGED <<handlers, scheduler>>
  \/ clearAll /\ UNCHANGED <<handlers, scheduler>>

ThreadSpec == Init /\ [][ThreadNext]_vars

\* The event store together with clearAll, getDebugInfo and the thread writes
\* the worker makes (index.ts passes no channelId).
\* index.ts opens a thread for a publication: the publication payloads of pv1
OpsPayloads ==
  { pub \in Payloads : /\ pub.eventType = CONTRACT_REQUIRING_VERIFICATION_PUBLISHED
                       /\ getPactVersionFromPayload(pub) = "pv1" }
OpsNext ==
  \/ clock < OpsMaxTime /\ Tick /\ UNCHANGED <<handlers, scheduler>>
  \/ \E eventData \in EventData : BagCardinality(added) < OpsMaxEvents /\ addEvent(eventData)
         /\ UNCHANGED <<handlers, scheduler>>
  \/ getEventsToPublish /\ UNCHANGED <<handlers, scheduler>>
  \/ \E pub \in OpsPayloads, channel \in Channels, threadTs \in ThreadTss :
       setPublicationThreadTs(pub, channel, threadTs, UNDEFINED) /\ UNCHANGED <<handlers, scheduler>>
  \/ getDebugInfo /\ UNCHANGED <<handlers, scheduler>>
  \/ clearAll /\ UNCHANGED <<handlers, scheduler>>

OpsSpec == Init /\ [][OpsNext]_vars

\* The event store and the thread tracker used side by side, lookups included.
StoreAndThreadsNext ==
  \/ clock < OpsMaxTime /\ Tick /\ UNCHANGED <<handlers, scheduler>>
  \/ \E eventData \in EventData : BagCardinality(added) < OpsMaxEvents /\ addEvent(eventData)
         /\ UNCHANGED <<handlers, scheduler>>
  \/ getEventsToPublish /\ UNCHANGED <<handlers, scheduler>>
  \/ \E pub \in OpsPayloads, channel \in Channels, threadTs \in ThreadTss :
       setPublicationThreadTs(pub, channel, threadTs, UNDEFINED) /\ UNCHANGED <<handlers, scheduler>>
  \/ \E pub \in Payloads, channel \in Channels : getPublicationThreadTs(pub, channel)
         /\ UNCHANGED <<handlers, scheduler>>
  \/ \E pub \in Payloads, channel \in Channels : getPublicationPayload(pub, channel)
         /\ UNCHANGED <<handlers, scheduler>>
  \/ \E pub \in Payloads, channel \in Channels : getPublicationChannelId(pub, channel)
         /\ UNCHANGED <<handlers, scheduler>>

StoreAndThreadsSpec == Init /\ [][StoreAndThreadsNext]_vars

\* ---- the webhook handler of the worker, one request per handler ----
\* Each await of the handler is one step; a call to the aggregator is one of the
\* aggregator's atomic actions, and steps of different requests interleave freely.

providerChannel(rawPayload) == <<"#ci-", rawPayload.providerName>>

HandlerPayloads ==
  {p \in WebhookPayloads : "pacticipant" \notin DOMAIN p}

isPublication(rawPayload) == rawPayload.eventType = CONTRACT_REQUIRING_VERIFICATION_PUBLISHED

isVerification(rawPayload) == rawPayload.eventType = PROVIDER_VERIFICATION_PUBLISHED

SameThread(g, rawPayload) ==
  /\ handlers[g].pc # "idle"
  /\ isPublication(handlers[g].rawPayload)
  /\ makeKeyForPublicationThread(handlers[g].rawPayload, providerChannel(handlers[g].rawPayload))
       = makeKeyForPublicationThread(rawPayload, providerChannel(rawPayload))

\* publication handlers of the same thread key whose setPublicationThreadTs has returned
Stored(rawPayload) ==
  {g \in Handlers : SameThread(g, rawPayload) /\ handlers[g].pc = "done"}

\* publication handlers of the same thread key between their Slack post and their
\* setPublicationThreadTs call
Posting(rawPayload) ==
  {g \in Handlers : SameThread(g, rawPayload) /\ handlers[g].pc = "setPublicationThreadTs"}

AggregatorUnchanged ==
  UNCHANGED <<clock, events, lastEventTime, lastProcessTime, totalProcessed, lastProcessedCount,
              added, returned, lastOp, lastResult, pre, getStreak, publicationThreads,
              preThreads, lastArgs, calls, callTimes>>

\* request.json(), getEventDataFromPayload and the addEvent call
fetchAddEvent(h, rawPayload) ==
  /\ handlers[h].pc = "idle"
  /\ fetchWebhook(rawPayload)
  /\ handlers' = [handlers EXCEPT ![h] =
       [pc |-> "postToProvidersChannel", rawPayload |-> rawPayload,
        eventData |-> getEventDataFromPayload(rawPayload)]]

\* postToProvidersChannel of a publication: the summary post to Slack
postSummary(h) ==
  /\ handlers[h].pc = "postToProvidersChannel"
  /\ isPublication(handlers[h].rawPayload)
  /\ handlers' = [handlers EXCEPT ![h] =
       [pc |-> "setPublicationThreadTs", rawPayload |-> handlers[h].rawPayload,
        eventData |-> handlers[h].eventData,
        post |-> slackPost("summary", UNDEFINED), summaryTs |-> SlackTs(h)]]
  /\ AggregatorUnchanged

\* postToProvidersChannel of a publication: the setPublicationThreadTs call
storeThread(h) ==
  /\ handlers[h].pc = "setPublicationThreadTs"
  /\ setPublicationThreadTs(handlers[h].rawPayload, providerChannel(handlers[h].rawPayload),
                            handlers[h].summaryTs, UNDEFINED)
  /\ handlers' = [handlers EXCEPT ![h].pc = "done"]

afterLookup_always(threadTs) == "slackPost"

\* if (threadTs): the reply is posted only when the lookup returned a thread
afterLookup(threadTs) == IF threadTs # UNDEFINED THEN "slackPost" ELSE "done"

\* postToProvidersChannel of a verification: the getPublicationThreadTs call
lookupThread(h) ==
  /\ handlers[h].pc = "postToProvidersChannel"
  /\ isVerification(handlers[h].rawPayload)
  /\ getPublicationThreadTs(handlers[h].rawPayload, providerChannel(handlers[h].rawPayload))
  /\ handlers' = [handlers EXCEPT ![h] =
       [pc |-> afterLookup(lastResult'),
        rawPayload |-> handlers[h].rawPayload, eventData |-> handlers[h].eventData,
        threadTs |-> lastResult',
        stored |-> Stored(handlers[h].rawPayload),
        posting |-> Posting(handlers[h].rawPayload)]]

\* postToProvidersChannel of a verification: the reply in the thread that was found
postReply(h) ==
  /\ handlers[h].pc = "slackPost"
  /\ handlers' = [handlers EXCEPT ![h] =
       [pc |-> "done", rawPayload |-> handlers[h].rawPayload,
        eventData |-> handlers[h].eventData, threadTs |-> handlers[h].threadTs,
        stored |-> handlers[h].stored, posting |-> handlers[h].posting,
        post |-> slackPost("verification", handlers[h].threadTs)]]
  /\ AggregatorUnchanged

HandlerNext ==
  \/ \E h \in Handlers, rawPayload \in HandlerPayloads : fetchAddEvent(h, rawPayload) /\ UNCHANGED scheduler
  \/ \E h \in Handlers : postSummary(h) /\ UNCHANGED scheduler
  \/ \E h \in Handlers : storeThread(h) /\ UNCHANGED scheduler
  \/ \E h \in Handlers : lookupThread(h) /\ UNCHANGED scheduler
  \/ \E h \in Handlers : postReply(h) /\ UNCHANGED scheduler

HandlerSpec == Init /\ [][HandlerNext]_vars

\* ---- the scheduled handler of the worker ----
\* Local time is read off now(): one bucket width of the clock is one minute, and
\* scheduler.epoch is the minute of the week (from Sunday 00:00 UTC) at which
\* now() = 0.  A time zone is its offset from UTC in minutes.

MinutesPerHour == 60
HoursPerDay == 24
DaysPerWeek == 7
MinutesPerDay == HoursPerDay * MinutesPerHour
MinutesPerWeek == DaysPerWeek * MinutesPerDay

SchedMaxEvents == 1
SchedMaxTime == 3

TimeZoneOffset ==
  [tz \in {"UTC", "Europe/Athens", "America/New_York"} |->
     CASE tz = "UTC" -> 0
       [] tz = "Europe/Athens" -> 120
       [] tz = "America/New_York" -> 0 - 300]

\* env.TIMEZONE of the deployments considered; UNDEFINED is the variable left unset
EnvTimeZones == {UNDEFINED, "Europe/Athens", "America/New_York"}

\* new Date(date.toLocaleString("en-US", {timeZone})): the wall clock of the zone,
\* as getDay() (0 = Sunday), getHours() and getMinutes() read it
toLocaleTime(currentTime, epoch, timezone) ==
  LET utc == epoch + (currentTime \div MINUTE_BUCKET_MS)
      m == (utc + TimeZoneOffset[timezone] + MinutesPerWeek) % MinutesPerWeek
  IN [dayOfWeek |-> m \div MinutesPerDay,
      hour |-> (m % MinutesPerDay) \div MinutesPerHour,
      minute |-> m % MinutesPerHour]

isWorkingHours_through21(hour) == hour >= 8 /\ hour <= 21

isWorkingHours(hour) == hour >= 8 /\ hour < 21

shouldProcessAtCurrentTime(env, currentTime) ==
  LET timezone == IF env.TIMEZONE # UNDEFINED THEN env.TIMEZONE ELSE "UTC"
      localTime == toLocaleTime(currentTime, env.epoch, timezone)
      dayOfWeek == localTime.dayOfWeek
      hour == localTime.hour
      minute == localTime.minute
      isWeekday == dayOfWeek >= 1 /\ dayOfWeek <= 5
  IN IF isWeekday /\ isWorkingHours(hour) THEN TRUE
     ELSE IF isWeekday /\ ~isWorkingHours(hour) THEN minute = 0
     ELSE minute = 0 /\ hour % 4 = 0

\* a run of the scheduled handler at the current time: processEventsForPublication
\* (its getEventsToPublish call) when the policy allows it, nothing otherwise
scheduled ==
  IF shouldProcessAtCurrentTime(scheduler, clock)
    THEN /\ getEventsToPublish
         /\ scheduler' = [scheduler EXCEPT !.tick = [time |-> clock, called |-> TRUE]]
         /\ UNCHANGED handlers
    ELSE /\ scheduler' = [scheduler EXCEPT !.tick = [time |-> clock, called |-> FALSE]]
         /\ UNCHANGED <<clock, events, lastEventTime, lastProcessTime, totalProcessed,
                        lastProcessedCount, added, returned, lastOp, lastResult, pre,
                        getStreak, publicationThreads, preThreads, lastArgs, calls,
                        callTimes, handlers>>

\* the minutes of the hour at which now() = 0
EpochMinutes == {0, 30, 58, 59}

\* the minutes of the week at which now() = 0: every hour of every day
Epochs == {m \in 0..(MinutesPerWeek - 1) : m % MinutesPerHour \in EpochMinutes}

\* deployments: the worker starts at any of the epochs, in any of the time zones
SchedInit ==
  /\ Constructed
  /\ scheduler \in [epoch : Epochs, TIMEZONE : EnvTimeZones, tick : {NoTick}]

SchedNext ==
  \/ clock < SchedMaxTime /\ Tick /\ UNCHANGED <<handlers, scheduler>>
  \/ \E eventData \in EventData :
       BagCardinality(added) < SchedMaxEvents /\ addEvent(eventData)
         /\ UNCHANGED <<handlers, scheduler>>
  \/ scheduled

SchedSpec == SchedInit /\ [][SchedNext]_vars

\* ======================= claims =======================
CurrentMinute == getMinuteBucket(clock, MINUTE_BUCKET_MS)
CurrentKey == createBucketKey(CurrentMinute)
Age(e) == clock - e.ts
IsPrefix(s, t) == Len(s) <= Len(t) /\ \A i \in 1..Len(s) : s[i] = t[i]
\* the events the last getEventsToPublish appended to the current bucket
Moved == SubSeq(MapGet(events, CurrentKey), Len(MapGet(pre, CurrentKey)) + 1,
                Len(MapGet(events, CurrentKey)))

\* C1: the multiset of all bucket contents is exactly the events added by
\* addEvent minus the events returned so far by getEventsToPublish: nothing is
\* lost and nothing is duplicated, the consolidation pass included.
C1_StoreIsAddedMinusReturned == StoredBag(events) (+) returned = added

\* a call that both consolidated an event and returned another
C1_Witness ==
  /\ lastOp = "get"
  /\ lastResult # <<>>
  /\ Moved # <<>>

\* C2: an event returned by a call leaves the store in that call, and over the
\* whole run no event is returned more often than it was added.
C2_ReturnedAtMostOnce ==
  /\ \A e \in BagToSet(returned) : CopiesIn(e, returned) <= CopiesIn(e, added)
  /\ lastOp = "get" =>
       \A e \in RangeOf(lastResult) :
         CopiesIn(e, StoredBag(events)) + CopiesIn(e, SeqToBag(lastResult))
           = CopiesIn(e, StoredBag(pre))

\* a call returns events after an earlier call has returned others
C2_Witness ==
  /\ lastOp = "get"
  /\ lastResult # <<>>
  /\ BagCardinality(returned) > Len(lastResult)
  /\ events # <<>>

\* C3: after getEventsToPublish at time now only the bucket of
\* floor(now / MINUTE_BUCKET_MS) can remain in the store.
C3_DrainCompleteness ==
  lastOp = "get" =>
    /\ \A i \in 1..Len(events) : getMinuteFromBucketKey(events[i].key) = CurrentMinute
    /\ Len(events) <= 1

\* several old buckets were stored next to the current one, and only the
\* current one is left
C3_Witness ==
  /\ lastOp = "get"
  /\ Len(pre) >= 3
  /\ Len(events) = 1

\* C4: the events of the current-minute bucket are never returned, whatever
\* their age, and they stay in the current bucket, in place.
C4_CurrentBucketImmunity ==
  lastOp = "get" =>
    /\ IsPrefix(MapGet(pre, CurrentKey), MapGet(events, CurrentKey))
    /\ \A e \in RangeOf(MapGet(pre, CurrentKey)) : e \notin RangeOf(lastResult)

\* the current bucket held an event that had reached the flush ceiling, and the
\* call left it there
C4_Witness ==
  /\ lastOp = "get"
  /\ \E e \in RangeOf(MapGet(pre, CurrentKey)) :
       /\ Age(e) >= MAX_TIME_BEFORE_FLUSHING
       /\ e \in RangeOf(MapGet(events, CurrentKey))

\* the events of the non-current buckets before the last call
PreNonCurrent ==
  UNION { RangeOf(pre[i].list) :
            i \in { j \in 1..Len(pre) : getMinuteFromBucketKey(pre[j].key) # CurrentMinute } }
PreAll == RangeOf(AllStored(pre))
\* the recent-version set as the specification words it: the versions of the
\* current bucket, plus those of the events of the bucket of the previous
\* minute that are younger than the quiet period
RecentVersions ==
  { e.pacticipantVersionNumber :
      e \in UNION { RangeOf(pre[i].list) :
                      i \in { j \in 1..Len(pre) :
                                getMinuteFromBucketKey(pre[j].key) = CurrentMinute } } }
  \cup
  { e.pacticipantVersionNumber :
      e \in { x \in UNION { RangeOf(pre[i].list) :
                              i \in { j \in 1..Len(pre) :
                                        getMinuteFromBucketKey(pre[j].key) = CurrentMinute - 1 } } :
                Age(x) < QUIET_PERIOD_MS } }
Consolidable(e) ==
  /\ e.pacticipantVersionNumber \in RecentVersions
  /\ Age(e) < MAX_TIME_BEFORE_FLUSHING
StoredNow == RangeOf(AllStored(events))

\* C5 (as stated): every consolidable event of a non-current bucket is moved to
\* the current bucket and not returned, and so is every event of the same
\* version, whatever that sibling's age.
C5_AllSiblingsMove ==
  lastOp = "get" =>
    \A e \in PreNonCurrent : Consolidable(e) =>
      \A s \in PreNonCurrent :
        s.pacticipantVersionNumber = e.pacticipantVersionNumber =>
          /\ s \in RangeOf(MapGet(events, CurrentKey))
          /\ s \notin RangeOf(lastResult)

\* C5 (amended): every event of a non-current bucket that is younger than
\* MAX_TIME_BEFORE_FLUSHING and whose version is in the recent-version set is
\* moved to the end of the current bucket and not returned, whatever its kind
\* and pacticipant; the number of stored events is unchanged by the move.
C5_ConsolidableEventsMove ==
  lastOp = "get" =>
    /\ \A e \in PreNonCurrent : Consolidable(e) =>
         /\ e \in RangeOf(Moved)
         /\ e \notin RangeOf(lastResult)
         /\ CopiesIn(e, StoredBag(events)) = CopiesIn(e, StoredBag(pre))
    /\ Len(AllStored(events)) + Len(lastResult) = Len(AllStored(pre))
    /\ Len(Moved) = Cardinality({ i \in 1..Len(AllStored(pre)) :
                        /\ AllStored(pre)[i] \in PreNonCurrent
                        /\ Consolidable(AllStored(pre)[i]) })

\* two siblings of another kind and pacticipant than the current-bucket event
\* that triggers the consolidation are moved together
C5_Witness ==
  /\ lastOp = "get"
  /\ Len(Moved) >= 2
  /\ \E c \in RangeOf(MapGet(pre, CurrentKey)) :
       \E i, j \in 1..Len(Moved) :
         /\ i # j
         /\ Moved[i].pacticipantVersionNumber = c.pacticipantVersionNumber
         /\ Moved[j].pacticipantVersionNumber = c.pacticipantVersionNumber
         /\ Moved[i].eventType # c.eventType
         /\ Moved[i].pacticipant # c.pacticipant

\* C6: an event of a non-current bucket older than MAX_TIME_BEFORE_FLUSHING is
\* returned and not moved, even when the current bucket holds an event of the
\* same version, and that newer event stays stored.
C6_MaxTimeOverride ==
  lastOp = "get" =>
    \A e \in PreNonCurrent : Age(e) > MAX_TIME_BEFORE_FLUSHING =>
      /\ e \in RangeOf(lastResult)
      /\ e \notin StoredNow
      /\ \A n \in RangeOf(MapGet(pre, CurrentKey)) :
           n.pacticipantVersionNumber = e.pacticipantVersionNumber =>
             n \in RangeOf(MapGet(events, CurrentKey)) /\ n \notin RangeOf(lastResult)

\* an old event is returned while a same-version event sits in the current bucket
C6_Witness ==
  /\ lastOp = "get"
  /\ \E e \in RangeOf(lastResult) :
       /\ Age(e) > MAX_TIME_BEFORE_FLUSHING
       /\ \E n \in RangeOf(MapGet(pre, CurrentKey)) :
            /\ n.pacticipantVersionNumber = e.pacticipantVersionNumber
            /\ n \in RangeOf(MapGet(events, CurrentKey))

\* C8: the recent-version set is exactly the versions of the current bucket
\* plus those of the previous-minute bucket's events with ts > now -
\* QUIET_PERIOD_MS; older buckets never contribute (an event whose version is
\* not in that set is returned), and when an event arrived in the previous
\* minute within the quiet period, no event of its version younger than
\* MAX_TIME_BEFORE_FLUSHING is returned.
C8_RecentVersionSet ==
  lastOp = "get" =>
    /\ getRecentVersionNumbers(pre, CurrentMinute, clock) = RecentVersions
    /\ \A e \in PreNonCurrent :
         e.pacticipantVersionNumber \notin RecentVersions => e \in RangeOf(lastResult)
    /\ \A q \in PreAll :
         (getMinuteBucket(q.ts, MINUTE_BUCKET_MS) = CurrentMinute - 1
            /\ q.ts > clock - QUIET_PERIOD_MS) =>
           \A r \in RangeOf(lastResult) :
             r.pacticipantVersionNumber = q.pacticipantVersionNumber =>
               Age(r) >= MAX_TIME_BEFORE_FLUSHING

\* the current bucket was empty, an event of the previous minute was within the
\* quiet period, and a same-version event of an older bucket was held with it,
\* while an event of the previous bucket outside the quiet period was returned
C8_Witness ==
  /\ lastOp = "get"
  /\ MapGet(pre, CurrentKey) = <<>>
  /\ \E i \in 1..Len(pre) :
       /\ getMinuteFromBucketKey(pre[i].key) < CurrentMinute - 1
       /\ \E e \in RangeOf(pre[i].list) : e \in RangeOf(Moved)
  /\ \E r \in RangeOf(lastResult) :
       /\ r \in RangeOf(MapGet(pre, createBucketKey(CurrentMinute - 1)))
       /\ Age(r) < MAX_TIME_BEFORE_FLUSHING

\* C9: with QUIET_PERIOD_MS <= MINUTE_BUCKET_MS <= MAX_TIME_BEFORE_FLUSHING (and
\* the non-decreasing clock of the model) a call at time now returns no event
\* with ts > now - QUIET_PERIOD_MS.
C9_QuietPeriod ==
  (lastOp = "get" /\ QUIET_PERIOD_MS <= MINUTE_BUCKET_MS
                  /\ MINUTE_BUCKET_MS <= MAX_TIME_BEFORE_FLUSHING) =>
    \A r \in RangeOf(lastResult) : r.ts <= clock - QUIET_PERIOD_MS

\* an event that arrived in the previous minute just before the trigger is held
\* while the call returns other events
C9_Witness ==
  /\ lastOp = "get"
  /\ QUIET_PERIOD_MS <= MINUTE_BUCKET_MS
  /\ MINUTE_BUCKET_MS <= MAX_TIME_BEFORE_FLUSHING
  /\ lastResult # <<>>
  /\ \E e \in RangeOf(Moved) :
       /\ e.ts > clock - QUIET_PERIOD_MS
       /\ getMinuteBucket(e.ts, MINUTE_BUCKET_MS) # CurrentMinute

\* C10: a second getEventsToPublish right after a first one, with no addEvent
\* and no clock change in between, returns the empty list and leaves the
\* buckets as the first call left them.
C10_SecondCallIsEmpty ==
  getStreak = 2 => (lastResult = <<>> /\ events = pre)

\* two calls in a row with events left in the store and events already returned
C10_Witness ==
  /\ getStreak = 2
  /\ events # <<>>
  /\ returned # EmptyBag

\* C7: under LiveSpec (the clock keeps advancing), if getEventsToPublish keeps
\* being invoked then every added event is eventually returned, also when
\* events of its version keep arriving in later minutes.  The clock of the
\* model stops at MaxTime, so the events followed are those added early enough
\* to pass the flush ceiling and one more minute before it stops.
LiveLimit == MaxTime - MAX_TIME_BEFORE_FLUSHING - MINUTE_BUCKET_MS
Unreturned ==
  { e \in BagToSet(added) :
      e.ts <= LiveLimit /\ CopiesIn(e, returned) < CopiesIn(e, added) }
C7_EventuallyReturned == Triggered => ((Unreturned # {}) ~> (Unreturned = {}))

\* an event that was held back by consolidation in an earlier call is returned
\* while an event of its version sits in the current bucket
C7_Witness ==
  /\ lastOp = "get"
  /\ \E i \in 1..Len(pre) :
       \E r \in RangeOf(pre[i].list) :
         /\ r \in RangeOf(lastResult)
         /\ r.ts <= LiveLimit
         /\ getMinuteFromBucketKey(pre[i].key) > getMinuteBucket(r.ts, MINUTE_BUCKET_MS)
         /\ \E n \in RangeOf(MapGet(events, CurrentKey)) :
              n.pacticipantVersionNumber = r.pacticipantVersionNumber

\* C11: addEvent at time t stamps the event with ts = t and appends it at the
\* end of the bucket whose key encodes floor(t / MINUTE_BUCKET_MS), creating
\* that bucket (at the end of the map) when absent and leaving every other
\* bucket alone; so two additions land in one bucket exactly when their times
\* have the same floor(t / MINUTE_BUCKET_MS): a key occurs once in the map and
\* encodes one minute.
C11_Minute == clock \div MINUTE_BUCKET_MS
C11_Slot == CHOOSE i \in 1..Len(events) : getMinuteFromBucketKey(events[i].key) = C11_Minute
C11_AddEventBucketing ==
  /\ \A i, j \in 1..Len(events) : events[i].key = events[j].key => i = j
  /\ lastOp = "add" =>
       /\ \E i \in 1..Len(events) : getMinuteFromBucketKey(events[i].key) = C11_Minute
       /\ LET slot == C11_Slot
              list == events[slot].list
              old == IF \E i \in 1..Len(pre) : pre[i].key = events[slot].key
                       THEN pre[slot].list ELSE <<>>
          IN /\ Len(list) = Len(old) + 1
             /\ IsPrefix(old, list)
             /\ list[Len(list)].ts = clock
             /\ Len(events) = IF \E i \in 1..Len(pre) : pre[i].key = events[slot].key
                                THEN Len(pre) ELSE Len(pre) + 1
             /\ \A i \in 1..Len(pre) : i # slot => events[i] = pre[i]
             /\ \A i \in 1..Len(pre) : pre[i].key = events[i].key

\* an event joins an existing bucket that holds an event of another time of the
\* same minute, next to a bucket of an earlier minute
C11_Witness ==
  /\ lastOp = "add"
  /\ Len(pre) >= 2
  /\ Len(events) = Len(pre)
  /\ \E e \in RangeOf(MapGet(pre, CurrentKey)) : e.ts # clock

\* C12: the list returned by getEventsToPublish is exactly the events that were
\* in a non-current bucket and are not consolidable (version not recent, or age
\* at least MAX_TIME_BEFORE_FLUSHING); every other stored event is afterwards
\* in the current bucket.
C12_Flushable == { e \in PreNonCurrent : ~Consolidable(e) }
C12_ResultCharacterization ==
  lastOp = "get" =>
    /\ RangeOf(lastResult) = C12_Flushable
    /\ \A e \in C12_Flushable : CopiesIn(e, SeqToBag(lastResult)) = CopiesIn(e, StoredBag(pre))
    /\ \A e \in PreAll \ C12_Flushable :
         CopiesIn(e, SeqToBag(MapGet(events, CurrentKey))) = CopiesIn(e, StoredBag(pre))
    /\ StoredNow = PreAll \ C12_Flushable

\* one call returns an event of a stale version and one at the flush ceiling
\* whose version is recent, and moves a third
C12_Witness ==
  /\ lastOp = "get"
  /\ Moved # <<>>
  /\ \E e \in RangeOf(lastResult) : e.pacticipantVersionNumber \notin RecentVersions
  /\ \E e \in RangeOf(lastResult) :
       e.pacticipantVersionNumber \in RecentVersions /\ Age(e) >= MAX_TIME_BEFORE_FLUSHING

\* C16: a getEventsToPublish call that deletes at least one bucket increases
\* totalProcessed by exactly the number of events it returns and sets
\* lastProcessedCount to that number; a call that deletes no bucket leaves
\* both unchanged.
C16_StatsFollowDeletion ==
  [][lastOp' = "get" =>
       IF \E i \in 1..Len(pre') : ~MapHas(events', pre'[i].key)
         THEN /\ totalProcessed' = totalProcessed + Len(lastResult')
              /\ lastProcessedCount' = Len(lastResult')
         ELSE UNCHANGED <<totalProcessed, lastProcessedCount>>]_vars

\* a call returns events after earlier calls have returned others: the total
\* has accumulated
C16_Witness ==
  /\ lastOp = "get"
  /\ lastResult # <<>>
  /\ Len(events) < Len(pre)
  /\ totalProcessed > Len(lastResult)
  /\ lastProcessedCount = Len(lastResult)

\* C17: when addEvent completes at time t, lastEventTime = t, and
\* lastEventTime is never below the ts of an added event; every
\* getEventsToPublish at time t sets lastProcessTime to t, also when it returns
\* nothing and deletes nothing; neither timestamp ever decreases, so both stay
\* at or above the time of the latest addition and extraction.
C17_Timestamps ==
  [][/\ lastOp' = "add" => lastEventTime' = clock'
     /\ \A e \in BagToSet(added') : e.ts <= lastEventTime'
     /\ lastOp' = "get" => lastProcessTime' = clock'
     /\ lastEventTime' >= lastEventTime
     /\ lastProcessTime' >= lastProcessTime]_vars

\* a call that returned nothing and deleted nothing, after an event was added
\* earlier, still stamped lastProcessTime
C17_Witness ==
  /\ lastOp = "get"
  /\ lastResult = <<>>
  /\ pre # <<>>
  /\ events = pre
  /\ lastProcessTime = clock
  /\ 0 < lastEventTime
  /\ lastEventTime < clock

\* C14: when a storage operation fails during addEvent the call is a no-op:
\* the durable state (buckets, lastEventTime, lastProcessTime, stats, threads)
\* is what it was before the call.
C14_FailedAddIsNoOp == [][lastOp' = "addFail" => UNCHANGED durable]_vars

\* C15: when a storage operation fails during getEventsToPublish, whichever it
\* is, the call returns the empty list and every event stored before the call
\* is still stored afterwards.
C15_FailedGetLosesNothing ==
  lastOp = "getFail" =>
    /\ lastResult = <<>>
    /\ StoredBag(events) = StoredBag(pre)

RECURSIVE C19_SumOfCounts(_)
C19_SumOfCounts(buckets) ==
  IF buckets = <<>> THEN 0 ELSE Head(buckets).count + C19_SumOfCounts(Tail(buckets))
C19_DebugInfoReadOnly ==
  [][lastOp' = "getDebugInfo" =>
       /\ UNCHANGED durable
       /\ Len(lastResult'.eventBuckets) = Len(events')
       /\ \A i \in 1..Len(events') :
            /\ lastResult'.eventBuckets[i].key = events'[i].key
            /\ lastResult'.eventBuckets[i].events = events'[i].list
            /\ lastResult'.eventBuckets[i].count = Len(events'[i].list)
       /\ lastResult'.totalEvents = C19_SumOfCounts(lastResult'.eventBuckets)
       /\ lastResult'.totalProcessedEvents = totalProcessed'
       /\ lastResult'.lastProcessedCount = lastProcessedCount'
       /\ DateParse(lastResult'.lastEventTime) = lastEventTime'
       /\ DateParse(lastResult'.lastProcessTime) = lastProcessTime'
       /\ lastResult'.publicationThreads = publicationThreads']_vars

\* a snapshot of a store with one bucket of two events, a last event time and
\* a thread
C19_Witness ==
  /\ lastOp = "getDebugInfo"
  /\ lastResult.totalEvents = 2
  /\ Len(lastResult.eventBuckets) = 1
  /\ DateParse(lastResult.lastEventTime) > 0
  /\ DOMAIN lastResult.publicationThreads # {}

\* the key and entries of the last setPublicationThreadTs
C20_Key == makeKeyForPublicationThread(lastArgs[1], lastArgs[2])
C20_Replaced == lastOp = "setPublicationThreadTs" /\ C20_Key \in DOMAIN preThreads

C13_StateAfter(call) ==
  LET start == call.start
      t == call.currentTime
      minute == t \div MINUTE_BUCKET_MS
      key == createBucketKey(minute)
      stored == [eventType |-> call.eventData.eventType,
                 pacticipant |-> call.eventData.pacticipant,
                 pacticipantVersionNumber |-> call.eventData.pacticipantVersionNumber,
                 ts |-> t]
      consolidated == consolidateEvents(start[1], t)
      n == Len(EventsToSend(consolidated, minute))
      deleted == Len(BucketsToDelete(consolidated, minute)) > 0
  IN IF call.op = "addEvent"
       THEN <<MapSet(start[1], key, Append(MapGet(start[1], key), stored)),
              t, start[3], start[4], start[5], start[6]>>
       ELSE <<RemoveProcessed(consolidated, minute), start[2], t,
              IF deleted THEN start[4] + n ELSE start[4],
              IF deleted THEN n ELSE start[5], start[6]>>
C13_ResultOf(call) ==
  IF call.op = "addEvent" THEN <<>>
  ELSE EventsToSend(consolidateEvents(call.start[1], call.currentTime),
                    call.currentTime \div MINUTE_BUCKET_MS)

C21_PactVersion(pub) ==
  LET url == IF pub.eventType = PROVIDER_VERIFICATION_PUBLISHED
               THEN pub.verificationResultUrl ELSE pub.pactUrl
  IN IF \E i \in 1..(Len(url) - 1) : url[i] = "pact-version"
       THEN url[(CHOOSE i \in 1..(Len(url) - 1) :
                   /\ url[i] = "pact-version"
                   /\ \A j \in 1..(i - 1) : url[j] # "pact-version") + 1]
       ELSE UNDEFINED
C21_SameThread(p, q) ==
  /\ p.providerName = q.providerName
  /\ p.consumerName = q.consumerName
  /\ p.consumerVersionBranch = q.consumerVersionBranch
  /\ C21_PactVersion(p) = C21_PactVersion(q)
\* the entries stored for the payload and channel of the last lookup
C21_Matching ==
  { k \in DOMAIN publicationThreads :
      /\ k[5] = lastArgs[2]
      /\ C21_SameThread(publicationThreads[k].payload, lastArgs[1]) }
C21_Field(info) ==
  CASE lastOp = "getPublicationThreadTs" -> info.ts
    [] lastOp = "getPublicationPayload" -> info.payload
    [] lastOp = "getPublicationChannelId" -> info.channelId

\* C21: setPublicationThreadTs(pub, channel, ts) stores ts and pub in an entry
\* of that channel; a lookup with any payload of the same provider, consumer,
\* branch and pact version and the same channel returns the stored ts,
\* channelId or payload of that one entry; a lookup for which no such entry was
\* stored returns undefined.
C21_LookupRoundTrip ==
  /\ lastOp = "setPublicationThreadTs" =>
       \E k \in DOMAIN publicationThreads :
         /\ k[5] = lastArgs[2]
         /\ publicationThreads[k].payload = lastArgs[1]
         /\ publicationThreads[k].ts = lastArgs[3]
  /\ lastOp \in {"getPublicationThreadTs", "getPublicationPayload", "getPublicationChannelId"} =>
       /\ Cardinality(C21_Matching) <= 1
       /\ \A k \in C21_Matching : lastResult = C21_Field(publicationThreads[k])
       /\ C21_Matching = {} => lastResult = UNDEFINED

\* a verification payload finds the ts stored with the publication payload of
\* the same pact version, while the other channel holds a thread with another ts
C21_Witness ==
  /\ lastOp = "getPublicationThreadTs"
  /\ lastResult # UNDEFINED
  /\ lastArgs[1].eventType = PROVIDER_VERIFICATION_PUBLISHED
  /\ \E k \in C21_Matching :
       publicationThreads[k].payload.eventType = CONTRACT_REQUIRING_VERIFICATION_PUBLISHED
  /\ \E k \in DOMAIN publicationThreads :
       k[5] # lastArgs[2] /\ publicationThreads[k].ts # lastResult

\* the key of the last thread write, from the parts of its payload and channel
C22_Key == <<lastArgs[1].providerName, lastArgs[1].consumerName,
             lastArgs[1].consumerVersionBranch, C21_PactVersion(lastArgs[1]), lastArgs[2]>>

C23_Events == StoredNow \cup BagToSet(returned)

\* C23: the normalised event of every webhook payload carries pacticipant =
\* providerName and pacticipantVersionNumber = providerVersionNumber for a
\* verification, consumerName and consumerVersionNumber for a publication,
\* next to every property of the payload; stored, consolidated and returned
\* events keep these values.
C23_DerivedFields ==
  \A e \in C23_Events :
    /\ e.pacticipant = IF e.eventType = PROVIDER_VERIFICATION_PUBLISHED
                         THEN e.providerName ELSE e.consumerName
    /\ e.pacticipantVersionNumber = IF e.eventType = PROVIDER_VERIFICATION_PUBLISHED
                                      THEN e.providerVersionNumber
                                      ELSE e.consumerVersionNumber
    /\ \E rawPayload \in WebhookPayloads :
         /\ DOMAIN rawPayload \subseteq DOMAIN e
         /\ \A k \in DOMAIN rawPayload : e[k] = rawPayload[k]

C24_Key(e) == <<e.pacticipant, e.pacticipantVersionNumber>>
C24_Keys == {C24_Key(lastResult[i]) : i \in 1..Len(lastResult)}
C24_Groups == GroupEvents(<<>>, lastResult)
C24_Posts == postMessagesForEventsToSlack(lastResult)

RECURSIVE C25_InOrder(_)
C25_InOrder(m) ==
  IF m = <<>> THEN <<>>
  ELSE (IF getMinuteFromBucketKey(Head(m).key) # CurrentMinute THEN Head(m).list ELSE <<>>)
       \o C25_InOrder(Tail(m))

\* C25: the list getEventsToPublish returns keeps the order of the buckets in
\* the map and, within a bucket, the order of its list; a bucket's list is in
\* the order of the addEvent calls, and events consolidated into the current
\* bucket come after the events already there, in the same bucket-then-list
\* order. The list is not sorted by ts.
C25_ReturnOrder ==
  /\ lastOp = "get" =>
       /\ lastResult = SelectSeq(C25_InOrder(pre), LAMBDA e : ~Consolidable(e))
       /\ MapGet(events, CurrentKey)
            = MapGet(pre, CurrentKey) \o SelectSeq(C25_InOrder(pre), Consolidable)
  /\ lastOp = "add" =>
       /\ Len(MapGet(events, CurrentKey)) = Len(MapGet(pre, CurrentKey)) + 1
       /\ IsPrefix(MapGet(pre, CurrentKey), MapGet(events, CurrentKey))
       /\ \A i \in 1..Len(pre) : pre[i].key = events[i].key

\* a returned list that is not in ts order: an older consolidated event follows
\* a younger event of the bucket it was moved into; and two buckets returned
C25_Witness ==
  /\ lastOp = "get"
  /\ \E i \in 1..(Len(lastResult) - 1) : lastResult[i].ts > lastResult[i + 1].ts
  /\ Len(lastResult) = 3
  /\ Cardinality({i \in 1..Len(pre) : pre[i].list # <<>>
                    /\ getMinuteFromBucketKey(pre[i].key) # CurrentMinute}) = 2

\* C26 (as stated): getDebugInfo reports null for timeSinceLastEvent, resp.
\* timeSinceLastProcess, when no addEvent, resp. getEventsToPublish, ran since
\* construction or clearAll, and otherwise the time elapsed since the last such
\* call, for every time t >= 0 of that call.
C26_TimeSince ==
  lastOp = "getDebugInfo" =>
    /\ lastResult.timeSinceLastEvent
         = IF callTimes.add = NEVER THEN NULL ELSE Number(clock - callTimes.add[1])
    /\ lastResult.timeSinceLastProcess
         = IF callTimes.get = NEVER THEN NULL ELSE Number(clock - callTimes.get[1])

\* C26 (amended): as above for calls at a time t > 0; after a call at t = 0 the
\* field is still null, the stored timestamp 0 being read as "never".
C26_TimeSincePositive ==
  lastOp = "getDebugInfo" =>
    /\ lastResult.timeSinceLastEvent
         = IF callTimes.add = NEVER \/ callTimes.add = Number(0)
             THEN NULL ELSE Number(clock - callTimes.add[1])
    /\ lastResult.timeSinceLastProcess
         = IF callTimes.get = NEVER \/ callTimes.get = Number(0)
             THEN NULL ELSE Number(clock - callTimes.get[1])

\* getDebugInfo after an addEvent at time 0 and a getEventsToPublish at a later
\* time: null for the first, a positive elapsed time for the second
C26_Witness ==
  /\ lastOp = "getDebugInfo"
  /\ callTimes.add = Number(0)
  /\ lastResult.timeSinceLastEvent = NULL
  /\ callTimes.get # NEVER
  /\ lastResult.timeSinceLastProcess # NULL
  /\ lastResult.timeSinceLastProcess[1] > 0

\* C27: at the flush ceiling, an event of a non-current bucket whose version is
\* recent is consolidated (kept, in the current bucket, not returned) when its
\* age is MAX_TIME_BEFORE_FLUSHING - 1, and is returned and removed when its age
\* is MAX_TIME_BEFORE_FLUSHING or more.
C27_FlushCeilingBoundary ==
  lastOp = "get" =>
    \A e \in PreNonCurrent :
      e.pacticipantVersionNumber \in RecentVersions =>
        /\ Age(e) = MAX_TIME_BEFORE_FLUSHING - 1 =>
             /\ e \in RangeOf(Moved)
             /\ e \notin RangeOf(lastResult)
        /\ Age(e) >= MAX_TIME_BEFORE_FLUSHING =>
             /\ e \in RangeOf(lastResult)
             /\ e \notin StoredNow

\* one call met both sides of the boundary: a recent-version event one below the
\* ceiling was consolidated and one exactly at the ceiling was returned
C27_Witness ==
  /\ lastOp = "get"
  /\ \E e, f \in PreNonCurrent :
       /\ e.pacticipantVersionNumber \in RecentVersions
       /\ f.pacticipantVersionNumber \in RecentVersions
       /\ Age(e) = MAX_TIME_BEFORE_FLUSHING - 1
       /\ Age(f) = MAX_TIME_BEFORE_FLUSHING
       /\ e \in RangeOf(Moved)
       /\ f \in RangeOf(lastResult)

\* the previous-minute and the current bucket before the last call
C28_Previous == RangeOf(MapGet(pre, createBucketKey(CurrentMinute - 1)))
C28_Current == RangeOf(MapGet(pre, CurrentKey))
\* every event of the version of e in a non-current bucket was returned
C28_Published(e) ==
  \A f \in PreNonCurrent :
    f.pacticipantVersionNumber = e.pacticipantVersionNumber =>
      f \in RangeOf(lastResult) /\ f \notin StoredNow
\* an event of the previous bucket one past the boundary holds its version back
C28_YoungerHolds ==
  \A e \in C28_Previous :
    e.ts = clock - QUIET_PERIOD_MS + 1 =>
      /\ e.pacticipantVersionNumber \in getRecentVersionNumbers(pre, CurrentMinute, clock)
      /\ \A f \in RangeOf(lastResult) :
           f.pacticipantVersionNumber = e.pacticipantVersionNumber =>
             Age(f) >= MAX_TIME_BEFORE_FLUSHING

\* C28 (as stated): a previous-minute event with ts = now - QUIET_PERIOD_MS does
\* not make its version recent: it and its same-version siblings are returned
\* when nothing in the current bucket has that version; one with
\* ts = now - QUIET_PERIOD_MS + 1 makes its version recent, and nothing of that
\* version younger than the flush ceiling is returned.
C28_QuietBoundary ==
  lastOp = "get" =>
    /\ \A e \in C28_Previous :
         (/\ e.ts = clock - QUIET_PERIOD_MS
          /\ \A x \in C28_Current :
               x.pacticipantVersionNumber # e.pacticipantVersionNumber)
           => C28_Published(e)
    /\ C28_YoungerHolds

\* C28 (amended): as above, the siblings being returned when neither the
\* current bucket nor a previous-minute event younger than the quiet period has
\* that version.
C28_QuietBoundaryNoYounger ==
  lastOp = "get" =>
    /\ \A e \in C28_Previous :
         (/\ e.ts = clock - QUIET_PERIOD_MS
          /\ \A x \in C28_Current :
               x.pacticipantVersionNumber # e.pacticipantVersionNumber
          /\ \A y \in C28_Previous :
               y.ts > clock - QUIET_PERIOD_MS =>
                 y.pacticipantVersionNumber # e.pacticipantVersionNumber)
           => /\ e.pacticipantVersionNumber
                   \notin getRecentVersionNumbers(pre, CurrentMinute, clock)
              /\ C28_Published(e)
    /\ C28_YoungerHolds

\* one call met both sides: an event exactly QUIET_PERIOD_MS old was returned,
\* and an event of another version one millisecond younger was held back
C28_Witness ==
  /\ lastOp = "get"
  /\ \E e, f \in C28_Previous :
       /\ e.ts = clock - QUIET_PERIOD_MS
       /\ f.ts = clock - QUIET_PERIOD_MS + 1
       /\ e \in RangeOf(lastResult)
       /\ f \in RangeOf(Moved)

\* the events the last call marked to move, and the recent versions it used
C29_Recent == getRecentVersionNumbers(pre, CurrentMinute, clock)
C29_Marked == CollectEventsToMove(pre, CurrentKey, C29_Recent, clock)
C29_MarkedEvents == [i \in 1..Len(C29_Marked) |-> C29_Marked[i].eventToMove]

\* every lookup of the loop of moveEvents, run on the map as the loop has left
\* it so far, finds the event it looks for
RECURSIVE C29_LookupsHit(_, _)
C29_LookupsHit(eventsToMove, allEvents) ==
  IF eventsToMove = <<>> THEN TRUE
  ELSE LET mv == Head(eventsToMove)
           fromEventList == MapGet(allEvents, mv.fromBucket)
           index == findIndex(fromEventList, mv.eventToMove.ts,
                              mv.eventToMove.pacticipantVersionNumber)
       IN /\ index >= 0
          /\ index < Len(fromEventList)
          /\ fromEventList[index + 1] = mv.eventToMove
          /\ C29_LookupsHit(Tail(eventsToMove), MoveOne(allEvents, mv, CurrentKey))

\* C29: in the consolidation of getEventsToPublish every marked event is found
\* in its origin bucket by the lookup on (ts, pacticipantVersionNumber); the
\* marked events, and no other, leave their buckets, and exactly they are
\* appended to the current bucket; also when events of one bucket share the
\* same (ts, pacticipantVersionNumber).
C29_MoveExact ==
  lastOp = "get" =>
    /\ C29_LookupsHit(C29_Marked, pre)
    /\ MapGet(events, CurrentKey) = MapGet(pre, CurrentKey) \o C29_MarkedEvents
    /\ \A i \in 1..Len(pre) :
         pre[i].key # CurrentKey =>
           MapGet(consolidateEvents(pre, clock), pre[i].key)
             = SelectSeq(pre[i].list, LAMBDA e : ~Consolidable(e))
    /\ SeqToBag(lastResult) (+) SeqToBag(C29_MarkedEvents)
         = SeqToBag(C25_InOrder(pre))
    /\ \A i \in 1..Len(C29_Marked) : Consolidable(C29_Marked[i].eventToMove)

\* two different events of one bucket with the same (ts, version) were both
\* moved by one call
C29_Witness ==
  /\ lastOp = "get"
  /\ \E i, j \in 1..Len(C29_Marked) :
       /\ i # j
       /\ C29_Marked[i].eventToMove # C29_Marked[j].eventToMove
       /\ C29_Marked[i].fromBucket = C29_Marked[j].fromBucket
       /\ C29_Marked[i].eventToMove.ts = C29_Marked[j].eventToMove.ts
       /\ C29_Marked[i].eventToMove.pacticipantVersionNumber
            = C29_Marked[j].eventToMove.pacticipantVersionNumber

\* C30: a bucket is in the store only while it holds events. After every
\* addEvent and getEventsToPublish no stored bucket has an empty list; every
\* non-current bucket, one emptied by consolidation included, is gone after the
\* getEventsToPublish that met it; the current bucket comes into being only by
\* an addEvent or by a consolidation that moves an event into it.
C30_NoEmptyBucket ==
  /\ lastOp \in {"add", "get"} => \A i \in 1..Len(events) : events[i].list # <<>>
  /\ lastOp = "get" =>
       /\ \A i \in 1..Len(pre) : pre[i].key # CurrentKey => ~MapHas(events, pre[i].key)
       /\ ~MapHas(pre, CurrentKey) => (MapHas(events, CurrentKey) <=> C29_Marked # <<>>)
  /\ lastOp = "add" =>
       /\ MapHas(events, CurrentKey)
       /\ \A i \in 1..Len(events) : events[i].key = CurrentKey \/ MapHas(pre, events[i].key)

\* without storage failures: a call emptied a bucket by consolidation (all its
\* events moved), deleted it and created the current bucket for the moved events
C30_Witness ==
  /\ lastOp = "get"
  /\ \E i \in 1..Len(pre) :
       /\ pre[i].key # CurrentKey
       /\ pre[i].list # <<>>
       /\ \A e \in RangeOf(pre[i].list) : e \in RangeOf(C29_MarkedEvents)
       /\ ~MapHas(events, pre[i].key)
  /\ ~MapHas(pre, CurrentKey)
  /\ MapHas(events, CurrentKey)

\* the minutes of the buckets of map m that hold the event e
C31_MinutesOf(m, e) ==
  { getMinuteFromBucketKey(m[i].key) : i \in { j \in 1..Len(m) : e \in RangeOf(m[j].list) } }

\* C31: a stored event keeps its ts and every other field it was stored with;
\* it is stored by addEvent in the bucket of minute floor(ts / MINUTE_BUCKET_MS),
\* changes bucket only when a getEventsToPublish consolidates it, and then to a
\* later minute, so its bucket's minute is never below floor(ts / MINUTE_BUCKET_MS).
C31_EventsImmutable ==
  [][\A e \in RangeOf(AllStored(events')) :
       /\ e \in BagToSet(added')
       /\ \A n \in C31_MinutesOf(events', e) :
            /\ n >= getMinuteBucket(e.ts, MINUTE_BUCKET_MS)
            /\ \A m \in C31_MinutesOf(events, e) :
                 /\ n >= m
                 /\ n # m => /\ lastOp' = "get"
                             /\ e \in RangeOf(C29_MarkedEvents')
       /\ C31_MinutesOf(events, e) = {} =>
            /\ lastOp' = "add"
            /\ C31_MinutesOf(events', e) = {getMinuteBucket(e.ts, MINUTE_BUCKET_MS)}]_vars

\* a consolidated event sits, unchanged, two minutes after the minute of its ts
C31_Witness ==
  /\ lastOp = "get"
  /\ \E e \in RangeOf(Moved) :
       /\ CurrentMinute >= getMinuteBucket(e.ts, MINUTE_BUCKET_MS) + 2
       /\ e \in BagToSet(added)
       /\ e \in RangeOf(MapGet(events, CurrentKey))

\* C32: an event stored when getEventsToPublish runs at a time at least
\* MAX_TIME_BEFORE_FLUSHING + MINUTE_BUCKET_MS past its ts is returned by that
\* call; no event a call leaves in the store is that old.
C32_BoundedHold ==
  lastOp = "get" =>
    /\ \A e \in RangeOf(AllStored(pre)) :
         Age(e) >= MAX_TIME_BEFORE_FLUSHING + MINUTE_BUCKET_MS =>
           /\ e \in RangeOf(lastResult)
           /\ e \notin StoredNow
    /\ \A e \in StoredNow : Age(e) < MAX_TIME_BEFORE_FLUSHING + MINUTE_BUCKET_MS

\* an event that old was returned although an event of its version had just
\* arrived, and the newer one stayed
C32_Witness ==
  /\ lastOp = "get"
  /\ \E e \in RangeOf(lastResult) :
       /\ Age(e) >= MAX_TIME_BEFORE_FLUSHING + MINUTE_BUCKET_MS
       /\ e.pacticipantVersionNumber \in RecentVersions
       /\ \E n \in StoredNow : n.pacticipantVersionNumber = e.pacticipantVersionNumber

\* C33: without storage failures, in every state between calls the processed
\* total plus the number of stored events is the number of addEvent calls
\* completed since construction or the last clearAll, and the processed total
\* is the summed length of the lists getEventsToPublish returned since then;
\* getDebugInfo reports these two numbers.
C33_Accounting ==
  /\ totalProcessed + Len(AllStored(events)) = BagCardinality(added)
  /\ totalProcessed = BagCardinality(returned)
  /\ lastOp = "getDebugInfo" =>
       /\ lastResult.totalProcessedEvents + lastResult.totalEvents = BagCardinality(added)
       /\ lastResult.totalProcessedEvents = BagCardinality(returned)

\* getDebugInfo with one event returned and one still stored
C33_Witness ==
  /\ lastOp = "getDebugInfo"
  /\ lastResult.totalProcessedEvents = 1
  /\ lastResult.totalEvents = 1
  /\ BagCardinality(added) = 2

\* C34: addEvent appends one event at the end of the current-minute bucket and
\* sets lastEventTime; every other bucket keeps its place, contents and order,
\* the events already in the current bucket stay as they were, and
\* lastProcessTime, totalProcessed, lastProcessedCount and the thread map are
\* unchanged.
C34_AddEventFrame ==
  [][lastOp' = "add" =>
       /\ \A i \in 1..Len(events) :
            /\ events'[i].key = events[i].key
            /\ events[i].key # CurrentKey' => events'[i].list = events[i].list
       /\ Len(events') = IF MapHas(events, CurrentKey') THEN Len(events) ELSE Len(events) + 1
       /\ Len(MapGet(events', CurrentKey')) = Len(MapGet(events, CurrentKey')) + 1
       /\ IsPrefix(MapGet(events, CurrentKey'), MapGet(events', CurrentKey'))
       /\ lastEventTime' = clock'
       /\ UNCHANGED <<lastProcessTime, totalProcessed, lastProcessedCount,
                      publicationThreads>>]_vars

\* an addEvent that found another bucket, an earlier extraction and a thread
C34_Witness ==
  /\ lastOp = "add"
  /\ \E i \in 1..Len(pre) : pre[i].key # CurrentKey /\ pre[i].list # <<>>
  /\ \E i \in 1..Len(events) : events[i].key # CurrentKey /\ events[i].list # <<>>
  /\ lastProcessTime > 0
  /\ publicationThreads # <<>>

\* C35: getEventsToPublish changes neither lastEventTime nor the thread map;
\* setPublicationThreadTs and the three lookups change neither the buckets nor
\* lastEventTime, lastProcessTime, totalProcessed or lastProcessedCount.
C35_StoreAndThreadsApart ==
  [][/\ lastOp' = "get" => UNCHANGED <<lastEventTime, publicationThreads>>
     /\ lastOp' \in {"setPublicationThreadTs", "getPublicationThreadTs",
                     "getPublicationPayload", "getPublicationChannelId"} =>
          UNCHANGED <<events, lastEventTime, lastProcessTime, totalProcessed,
                      lastProcessedCount>>]_vars

\* a lookup that found a thread, on an instance that holds events and has
\* returned some
C35_Witness ==
  /\ lastOp = "getPublicationThreadTs"
  /\ lastResult # UNDEFINED
  /\ events # <<>>
  /\ totalProcessed > 0
  /\ lastEventTime > lastProcessTime

\* verification handlers whose getPublicationThreadTs call has returned
C36_LookedUp ==
  {h \in Handlers : handlers[h].pc \in {"slackPost", "done"}
                      /\ isVerification(handlers[h].rawPayload)}

C36_Replied(h) == handlers[h].pc = "done" /\ "post" \in DOMAIN handlers[h]

C36_EventAdded(h) ==
  \E e \in BagToSet(added) : \A f \in DOMAIN handlers[h].eventData : e[f] = handlers[h].eventData[f]

\* a verification is replied in a thread exactly when its lookup ran after a
\* setPublicationThreadTs of the same key had returned, and the reply goes to a
\* thread stored by such a call
C36_ReplyIffStored ==
  \A h \in C36_LookedUp :
    /\ handlers[h].threadTs # UNDEFINED <=> handlers[h].stored # {}
    /\ handlers[h].pc = "done" =>
         /\ C36_Replied(h) <=> handlers[h].stored # {}
         /\ C36_Replied(h) =>
              \E g \in handlers[h].stored : handlers[h].post.thread_ts = handlers[g].summaryTs
    /\ C36_EventAdded(h)

C36_RepliedWitness ==
  \E h \in C36_LookedUp : C36_Replied(h) /\ handlers[h].posting = {}

\* the local wall clock at the last run of the scheduled handler
C37_Local ==
  LET utc == scheduler.epoch + (scheduler.tick.time \div MINUTE_BUCKET_MS)
      offset == CASE scheduler.TIMEZONE = "Europe/Athens" -> 120
                  [] scheduler.TIMEZONE = "America/New_York" -> 0 - 300
                  [] OTHER -> 0
      m == (utc + offset + 10080) % 10080
  IN [day |-> m \div 1440, hour |-> (m % 1440) \div 60, minute |-> m % 60]

C37_Weekday == C37_Local.day \in 1..5

C37_Policy ==
  \/ C37_Weekday /\ C37_Local.hour \in 8..20
  \/ C37_Weekday /\ C37_Local.hour \notin 8..20 /\ C37_Local.minute = 0
  \/ ~C37_Weekday /\ C37_Local.minute = 0 /\ C37_Local.hour \in {0, 4, 8, 12, 16, 20}

C37_CalledWitness ==
  /\ scheduler.tick # NoTick
  /\ scheduler.tick.called
  /\ C37_Weekday /\ C37_Local.hour = 20 /\ C37_Local.minute = 59
  /\ lastOp = "get" /\ lastResult # <<>>

====
